---- MODULE Spec2Model ----
(***************************************************************************)
(* A model of the HTML -> semantic block extractor                         *)
(* (src/html_to_semantic_json.py, class HTMLToSemanticJSON).               *)
(*                                                                         *)
(* A document is a sequence of element nodes in document (pre)order; each  *)
(* node has a tag, the index of its parent (0 for the top element), its    *)
(* own leading text and its attributes.  Texts, class strings and hrefs    *)
(* are strings, and the predicates of the code are computed on them.       *)
(* extract() is modelled step by step: pc is the position in               *)
(* _extract_blocks.                                                        *)
(*                                                                         *)
(* The job worker (src/worker/process_jobs.py) is modelled next to it:     *)
(* the extraction_jobs table, a clock in minutes, and for every worker     *)
(* process its position in the polling loop of main().                     *)
(***************************************************************************)
EXTENDS Integers, Sequences, FiniteSets, TLC

VARIABLES
    doc,        \* the parsed input: [nodes, head]
    config,     \* the merged configuration
    pc,         \* position in extract() / _extract_blocks
    source,     \* _extract_source_metadata's result
    tree,       \* self.main_content: [nodes, root, alive] (the working copy)
    idx,        \* self.main_content_id_index: id -> node
    consumed,   \* self.consumed_panel_nodes
    blocks,     \* the block sequence being built / post-processed
    validation, \* the validation record
    raised,     \* "" or the name of the exception that left extract()
    h1found,    \* the H1 count that the validation step found before filtering
    heap,       \* id(): the address of each element of the working copy
    trail,      \* history: the value of blocks after each step of _extract_blocks
                \* that assigned it, oldest first
    jobs,       \* the extraction_jobs table: job id -> row
    now,        \* datetime.now(timezone.utc), in minutes
    wpc,        \* worker -> its position in main()
    wjob,       \* worker -> job / job_id of the current iteration
    wstale,     \* worker -> the rows of the stale list still to update
    claims      \* history: job id -> the workers whose claim request changed the row

\* the state of the workers and of the table they share
workerVars == <<jobs, now, wpc, wjob, wstale, claims>>

\* the state of one extractor
extractorVars == <<doc, config, pc, source, tree, idx, consumed, blocks,
                   validation, raised, h1found, heap, trail>>

vars == <<doc, config, pc, source, tree, idx, consumed, blocks, validation,
          raised, h1found, heap, trail, jobs, now, wpc, wjob, wstale, claims>>

(***************************************************************************)
(* Strings                                                                 *)
(***************************************************************************)
\* s[i-1:i]: the character at position i, "" outside the string
Ch(s, i) == IF i >= 1 /\ i <= Len(s) THEN SubSeq(s, i, i) ELSE ""

\* str.startswith
StartsWith(s, p) == Len(s) >= Len(p) /\ SubSeq(s, 1, Len(p)) = p

\* str.endswith
EndsWith(s, p) == Len(s) >= Len(p) /\ SubSeq(s, Len(s) - Len(p) + 1, Len(s)) = p

\* p in s
Contains(s, p) ==
    \E i \in 1..(Len(s) - Len(p) + 1) : SubSeq(s, i, i + Len(p) - 1) = p

ContainsAny(s, ps) == \E p \in ps : Contains(s, p)

\* re.search(r'[...]', s) for a character class given as a set of characters
HasCharIn(s, cs) == \E i \in 1..Len(s) : Ch(s, i) \in cs

UPPER == "ABCDEFGHIJKLMNOPQRSTUVWXYZ"
LOWER == "abcdefghijklmnopqrstuvwxyz"
UpperChars == {Ch(UPPER, i) : i \in 1..Len(UPPER)}
LowerChars == {Ch(LOWER, i) : i \in 1..Len(LOWER)}
DigitChars == {"0", "1", "2", "3", "4", "5", "6", "7", "8", "9"}
LowerOf == [c \in UpperChars |->
              Ch(LOWER, CHOOSE i \in 1..Len(UPPER) : Ch(UPPER, i) = c)]

\* str.lower
RECURSIVE Lower(_)
Lower(s) ==
    IF s = "" THEN ""
    ELSE LET c == Ch(s, 1)
         IN  (IF c \in UpperChars THEN LowerOf[c] ELSE c)
                 \o Lower(SubSeq(s, 2, Len(s)))

\* str.strip (spaces)
RECURSIVE Strip(_)
Strip(s) ==
    IF s = "" THEN ""
    ELSE IF Ch(s, 1) = " " THEN Strip(SubSeq(s, 2, Len(s)))
    ELSE IF Ch(s, Len(s)) = " " THEN Strip(SubSeq(s, 1, Len(s) - 1))
    ELSE s

\* sep.join(parts)
RECURSIVE Join(_, _)
Join(parts, sep) ==
    IF parts = <<>> THEN ""
    ELSE IF Len(parts) = 1 THEN parts[1]
    ELSE parts[1] \o sep \o Join(Tail(parts), sep)

\* the position of the first occurrence of p in s at or after from, 0 if none
FindFrom(s, p, from) ==
    LET hits == {i \in from..(Len(s) - Len(p) + 1) : SubSeq(s, i, i + Len(p) - 1) = p}
    IN  IF hits = {} THEN 0 ELSE CHOOSE i \in hits : \A j \in hits : i <= j

\* the position of the last occurrence of p in s, 0 if none
FindLast(s, p) ==
    LET hits == {i \in 1..(Len(s) - Len(p) + 1) : SubSeq(s, i, i + Len(p) - 1) = p}
    IN  IF hits = {} THEN 0 ELSE CHOOSE i \in hits : \A j \in hits : i >= j

\* s.split() : the whitespace separated tokens of a class attribute
RECURSIVE Tokens(_)
Tokens(s) ==
    LET t == Strip(s)
        sp == FindFrom(t, " ", 1)
    IN  IF t = "" THEN <<>>
        ELSE IF sp = 0 THEN <<t>>
        ELSE <<SubSeq(t, 1, sp - 1)>> \o Tokens(SubSeq(t, sp + 1, Len(t)))

\* the elements of a set of naturals in increasing order
RECURSIVE SortedSeq(_)
SortedSeq(S) ==
    IF S = {} THEN <<>>
    ELSE LET m == CHOOSE x \in S : \A y \in S : x <= y
         IN  <<m>> \o SortedSeq(S \ {m})

Range(s) == {s[i] : i \in DOMAIN s}

(***************************************************************************)
(* Elements and trees                                                      *)
(***************************************************************************)
NoAttrs == [a \in {} |-> ""]

\* Tag.get(key, default)
Get(n, key, default) == IF key \in DOMAIN n.attrs THEN n.attrs[key] ELSE default

\* ' '.join(elem.get('class', [])).lower()
ClassStr(n) == Lower(Get(n, "class", ""))

\* the parent of n inside tree t (0 above the tree's top element)
Parent(t, n) == IF n = t.root THEN 0 ELSE t.nodes[n].parent

\* elem.parents, nearest first
RECURSIVE Parents(_, _)
Parents(t, n) ==
    LET p == Parent(t, n)
    IN  IF p = 0 THEN <<>> ELSE <<p>> \o Parents(t, p)

IsAncestor(t, a, n) == a \in Range(Parents(t, n))

\* the element children of n, in order
Kids(t, n) == SortedSeq({i \in t.alive : i # t.root /\ t.nodes[i].parent = n})

\* elem.find_all(True): the proper descendants of n, in document order
Descendants(t, n) == SortedSeq({i \in t.alive : IsAncestor(t, n, i)})

\* n and its descendants
Subtree(t, n) == {n} \cup {i \in t.alive : IsAncestor(t, n, i)}

\* the stripped, non-empty strings under n, in document order
Strings(t, n) ==
    LET own == SortedSeq({i \in Subtree(t, n) : Strip(t.nodes[i].text) # ""})
    IN  [k \in 1..Len(own) |-> Strip(t.nodes[own[k]].text)]

\* the nodes whose own text is part of n's text
TextNodes(t, n) == {i \in Subtree(t, n) : Strip(t.nodes[i].text) # ""}

\* elem.get_text(separator=' ', strip=True)
GetText(t, n) == Join(Strings(t, n), " ")

\* elem.get_text(strip=True)
GetTextTight(t, n) == Join(Strings(t, n), "")

\* elem.find(names) is not None
HasDescendantTag(t, n, names) ==
    \E i \in t.alive : IsAncestor(t, n, i) /\ t.nodes[i].tag \in names

\* Tag.decompose(): n and its subtree leave the tree
Decompose(t, n) == [t EXCEPT !.alive = @ \ Subtree(t, n)]

RECURSIVE DecomposeAll(_, _)
DecomposeAll(t, ns) ==
    IF ns = <<>> THEN t
    ELSE DecomposeAll(IF ns[1] \in t.alive THEN Decompose(t, ns[1]) ELSE t, Tail(ns))

\* Tag.__eq__: same name, same attributes, same contents, recursively
RECURSIVE TagEq(_, _, _)
TagEq(t, a, b) ==
    \/ a = b
    \/ /\ t.nodes[a].tag = t.nodes[b].tag
       /\ t.nodes[a].attrs = t.nodes[b].attrs
       /\ t.nodes[a].text = t.nodes[b].text
       /\ LET ka == Kids(t, a)
              kb == Kids(t, b)
          IN  /\ Len(ka) = Len(kb)
              /\ \A i \in 1..Len(ka) : TagEq(t, ka[i], kb[i])

\* elem in a set of Tags (hash and == are structural)
InTagSet(t, n, S) == \E m \in S : TagEq(t, n, m)

(***************************************************************************)
(* Source metadata                                                         *)
(***************************************************************************)
\* _extract_source_metadata: the head of the document is the record
\* [title, canonical, og_url, description, og_description]
ExtractSourceMetadata(d) ==
    LET url == IF d.head.canonical # "" THEN d.head.canonical ELSE d.head.og_url
    IN  [url |-> url,
         title |-> Strip(d.head.title),
         canonical |-> url,
         meta_description |->
             IF d.head.description # "" THEN d.head.description
             ELSE d.head.og_description]

\* the whole parsed document as a tree
Soup(d) == [nodes |-> d.nodes, root |-> 1, alive |-> DOMAIN d.nodes]

(***************************************************************************)
(* Visibility predicate                                                    *)
(***************************************************************************)
HIDDEN_CLASS_PATTERNS ==
    {"sr-only", "screen-reader-text", "visually-hidden", "hidden",
     "elementor-screen-only", "visuallyhidden", "sr-only-text",
     "a11y-hidden", "skip-link", "screen-reader"}

ContentTags == {"h1", "h2", "h3", "h4", "h5", "h6", "p", "li", "table"}

\* _is_visually_hidden._is_non_content_aria_hidden
IsNonContentAriaHidden(t, n) ==
    /\ Get(t.nodes[n], "aria-hidden", "") = "true"
    /\ ~HasDescendantTag(t, n, ContentTags)
    /\ Len(GetTextTight(t, n)) < 10

HasBreakpointClass(n) ==
    LET cs == ClassStr(n)
    IN  \/ Contains(cs, "elementor-hidden-mobile")
        \/ Contains(cs, "elementor-hidden-tablet")
        \/ Contains(cs, "elementor-hidden-desktop")
        \/ Contains(cs, "elementor-hidden-")

HasHiddenClass(n) == ContainsAny(ClassStr(n), HIDDEN_CLASS_PATTERNS)

HasHiddenStyle(n) ==
    LET st == Lower(Get(n, "style", ""))
    IN  ContainsAny(st, {"display:none", "display: none",
                         "visibility:hidden", "visibility: hidden"})

\* _is_visually_hidden
IsVisuallyHidden(t, n, cfg) ==
    IF IsNonContentAriaHidden(t, n) THEN TRUE
    ELSE IF HasHiddenStyle(t.nodes[n]) THEN TRUE
    ELSE IF HasBreakpointClass(t.nodes[n])
         THEN IF cfg.drop_breakpoint_hidden THEN TRUE
              ELSE \E p \in Range(Parents(t, n)) : IsNonContentAriaHidden(t, p)
    ELSE IF HasHiddenClass(t.nodes[n]) THEN TRUE
    ELSE \E p \in Range(Parents(t, n)) :
            IF HasBreakpointClass(t.nodes[p])
            THEN IF ~cfg.drop_breakpoint_hidden
                 THEN IsNonContentAriaHidden(t, p)
                 ELSE TRUE
            ELSE HasHiddenClass(t.nodes[p]) \/ IsNonContentAriaHidden(t, p)

\* _get_visible_text_simple
GetVisibleTextSimple(t, n, cfg) ==
    IF IsVisuallyHidden(t, n, cfg) THEN "" ELSE GetText(t, n)

\* the nodes the visible text of n is read from: none for a hidden element
VisibleSrc(t, n, cfg) == IF IsVisuallyHidden(t, n, cfg) THEN {} ELSE TextNodes(t, n)

\* What the visibility predicate and the visible text are on every node of a
\* tree: the walker reads a tree that no longer changes, so each is a function
\* of the node alone.
Visibility(t, cfg) ==
    [hidden |-> {n \in DOMAIN t.nodes : IsVisuallyHidden(t, n, cfg)},
     text |-> [n \in DOMAIN t.nodes |-> GetVisibleTextSimple(t, n, cfg)],
     src |-> [n \in DOMAIN t.nodes |-> VisibleSrc(t, n, cfg)]]

\* the working tree together with the visibility of its nodes
WithVisibility(t, cfg) ==
    [nodes |-> t.nodes, root |-> t.root, alive |-> t.alive, vis |-> Visibility(t, cfg)]

\* self._is_visually_hidden(n) during the walk
Hidden(t, n) == n \in t.vis.hidden

\* self._get_visible_text_simple(n) during the walk
VisibleText(t, n) == t.vis.text[n]

\* the nodes the visible text of n is read from
SrcOf(t, n) == t.vis.src[n]

(***************************************************************************)
(* Main-content selector                                                   *)
(***************************************************************************)
ChromeTags == {"header", "nav", "footer", "aside"}
ChromeRoles == {"banner", "navigation", "contentinfo", "complementary"}
VoidTags == {"img", "input", "link", "meta", "br", "hr", "source"}

IsChrome(n) == n.tag \in ChromeTags \/ Get(n, "role", "") \in ChromeRoles

\* _find_main_content.is_excluded
IsExcluded(t, n) ==
    \/ IsChrome(t.nodes[n])
    \/ \E p \in Range(Parents(t, n)) : IsChrome(t.nodes[p])

RECURSIVE SumSeq(_)
SumSeq(s) == IF s = <<>> THEN 0 ELSE s[1] + SumSeq(Tail(s))

AttrsLen(n) ==
    LET ks == DOMAIN n.attrs
        RECURSIVE Total(_)
        Total(S) == IF S = {} THEN 0
                    ELSE LET k == CHOOSE k \in S : TRUE
                         IN  Len(k) + Len(n.attrs[k]) + 4 + Total(S \ {k})
    IN  Total(ks)

\* len(str(elem)): <tag k="v">text children</tag>
RECURSIVE HtmlLen(_, _)
HtmlLen(t, n) ==
    LET nd == t.nodes[n]
        ks == Kids(t, n)
    IN  IF nd.tag \in VoidTags THEN Len(nd.tag) + 3 + AttrsLen(nd)
        ELSE 2 * Len(nd.tag) + 5 + AttrsLen(nd) + Len(nd.text)
               + SumSeq([i \in 1..Len(ks) |-> HtmlLen(t, ks[i])])

\* _find_main_content.score_element, as the fraction num / den (times 10)
ScoreNum(t, n, cfg) ==
    IF IsExcluded(t, n) THEN 0
    ELSE Len(Strip(VisibleText(t, n)))
           * (IF t.nodes[n].tag \in {"article", "section", "div"} THEN 12 ELSE 10)
ScoreDen(t, n) == HtmlLen(t, n)

\* _find_main_content.first_eligible_h1 (0: none)
FirstEligibleH1(t) ==
    LET hs == {i \in t.alive : t.nodes[i].tag = "h1" /\ ~IsExcluded(t, i)}
    IN  IF hs = {} THEN 0 ELSE CHOOSE i \in hs : \A j \in hs : i <= j

\* x in elem.descendants (== on tags is structural)
InDescendants(t, x, n) == \E i \in Range(Descendants(t, n)) : TagEq(t, x, i)

\* the widening loop of _find_main_content: from node upwards, below <body>
RECURSIVE WidenToH1(_, _, _, _)
WidenToH1(t, node, h1, best) ==
    IF node = 0 \/ t.nodes[node].tag = "body" THEN best
    ELSE IF InDescendants(t, h1, node) /\ ~IsExcluded(t, node) THEN node
    ELSE WidenToH1(t, Parent(t, node), h1, best)

\* _find_main_content (0: None), for the parsed document t
FindMainIn(t, cfg) ==
    LET mains == {i \in t.alive : t.nodes[i].tag = "main"}
        rolemains == {i \in t.alive : Get(t.nodes[i], "role", "") = "main"}
        bodies == {i \in t.alive : t.nodes[i].tag = "body"}
        Least(S) == CHOOSE i \in S : \A j \in S : i <= j
    IN  IF mains # {} THEN Least(mains)
        ELSE IF rolemains # {} THEN Least(rolemains)
        ELSE IF bodies = {} THEN 0
        ELSE LET body == Least(bodies)
                 cands == {i \in t.alive :
                             /\ IsAncestor(t, body, i)
                             /\ t.nodes[i].tag \in {"main", "article", "section", "div"}
                             /\ ~\E p \in Range(Parents(t, i)) : IsChrome(t.nodes[p])
                             /\ ScoreNum(t, i, cfg) > 0}
                 Better(a, b) ==  \* a sorts before b: higher score, or equal and earlier
                     LET l == ScoreNum(t, a, cfg) * ScoreDen(t, b)
                         r == ScoreNum(t, b, cfg) * ScoreDen(t, a)
                     IN  l > r \/ (l = r /\ a <= b)
             IN  IF cands = {} THEN body
                 ELSE LET best == CHOOSE a \in cands : \A b \in cands : Better(a, b)
                          h1 == FirstEligibleH1(t)
                      IN  IF h1 # 0 /\ ~InDescendants(t, h1, best) /\ best # h1
                          THEN WidenToH1(t, best, h1, best)
                          ELSE best

\* _find_main_content on the parsed document
FindMainContent(d, cfg) == FindMainIn(WithVisibility(Soup(d), cfg), cfg)

(***************************************************************************)
(* Working copy, id index, pruner                                          *)
(***************************************************************************)
\* _extract_blocks, lines 113-116: the main content is serialised and parsed
\* again, so the working tree holds the subtree alone, without its ancestors
CloneMain(d, m) ==
    LET t == Soup(d)
    IN  [nodes |-> d.nodes, root |-> m, alive |-> Subtree(t, m)]

\* _build_id_index: in document order, a later element overwrites an earlier one
BuildIdIndex(t) ==
    LET withId == {i \in t.alive : Get(t.nodes[i], "id", "") # ""}
        ids == {t.nodes[i].attrs["id"] : i \in withId}
    IN  [k \in ids |->
            CHOOSE i \in withId :
                /\ t.nodes[i].attrs["id"] = k
                /\ \A j \in withId : t.nodes[j].attrs["id"] = k => j <= i]

TagsToRemove ==
    {"script", "style", "noscript", "meta", "link", "img", "picture", "source",
     "form", "input", "textarea", "select", "label", "option"}

\* the test _prune_unwanted_nodes makes on a child
IsUnwanted(t, c, cfg) ==
    \/ t.nodes[c].tag \in TagsToRemove
    \/ t.nodes[c].tag \in ChromeTags
    \/ Get(t.nodes[c], "role", "") \in ChromeRoles
    \/ IsVisuallyHidden(t, c, cfg)

\* find_all(class_=re.compile(pattern, re.I)) for the two icon patterns
HasIconClass(n) ==
    LET cs == ClassStr(n)
        toks == Tokens(cs)
    IN  \/ Contains(cs, "elementor-icon-list-icon")
        \/ \E k \in 1..Len(toks) : EndsWith(toks[k], "elementor-icon")

\* _remove_icons_surgically: the icons are collected first, then decomposed
IconsToRemove(t, n) ==
    LET ds == Descendants(t, n)
        svgs == SelectSeq(ds, LAMBDA i : t.nodes[i].tag = "svg")
        is == SelectSeq(ds, LAMBDA i :
                 /\ t.nodes[i].tag = "i"
                 /\ \/ Contains(ClassStr(t.nodes[i]), "icon")
                    \/ Contains(ClassStr(t.nodes[i]), "fa-")
                    \/ Len(GetTextTight(t, i)) < 3)
        cls == SelectSeq(ds, LAMBDA i :
                 /\ HasIconClass(t.nodes[i])
                 /\ \/ HasDescendantTag(t, i, {"svg"})
                    \/ Len(GetTextTight(t, i)) < 10)
    IN  svgs \o is \o cls

RemoveIconsSurgically(t, n) == DecomposeAll(t, IconsToRemove(t, n))

\* _prune_unwanted_nodes: the children are tested in order, a kept child is
\* pruned at once, the unwanted ones are decomposed after the loop
RECURSIVE PruneUnwantedNodes(_, _, _)
RECURSIVE PruneKids(_, _, _, _)
PruneKids(t, ks, rm, cfg) ==
    IF ks = <<>> THEN [t |-> t, rm |-> rm]
    ELSE IF IsUnwanted(t, ks[1], cfg)
         THEN PruneKids(t, Tail(ks), Append(rm, ks[1]), cfg)
         ELSE PruneKids(PruneUnwantedNodes(t, ks[1], cfg), Tail(ks), rm, cfg)

PruneUnwantedNodes(t, n, cfg) ==
    LET r == PruneKids(t, Kids(t, n), <<>>, cfg)
    IN  RemoveIconsSurgically(DecomposeAll(r.t, r.rm), n)

(***************************************************************************)
(* Blocks                                                                  *)
(*                                                                         *)
(* A block is a record with the fields of the JSON object; "src" is added  *)
(* by the model: the nodes whose text the block carries.  A tab also       *)
(* records the panel element its content_blocks were extracted from.       *)
(***************************************************************************)
NoBlock == [type |-> "none"]

\* dict.get(key, default)
BGet(b, key, default) == IF key \in DOMAIN b THEN b[key] ELSE default

\* re.sub(r'\s+', ' ', text)
RECURSIVE CollapseWs(_)
CollapseWs(s) ==
    IF Len(s) < 2 THEN s
    ELSE IF Ch(s, 1) = " " /\ Ch(s, 2) = " " THEN CollapseWs(SubSeq(s, 2, Len(s)))
    ELSE Ch(s, 1) \o CollapseWs(SubSeq(s, 2, Len(s)))

SentencePunct == {".", "!", "?"}

AltTextPrefixes ==
    {"image of", "picture of", "photo of", "illustration of", "graphic showing",
     "icon for", "logo for", "click to", "link to"}

\* re.match(r'^trusted.*in.*area$', s)
IsTrustedArea(s) ==
    /\ StartsWith(s, "trusted")
    /\ EndsWith(s, "area")
    /\ \E i \in 8..(Len(s) - 5) : SubSeq(s, i, i + 1) = "in"

\* _create_paragraph
CreateParagraph(text0, src) ==
    LET t1 == Strip(text0)
        text == CollapseWs(t1)
        low == Lower(text)
    IN  IF t1 = "" \/ Len(t1) < 3 THEN NoBlock
        ELSE IF (\E p \in AltTextPrefixes : StartsWith(low, p)) \/ IsTrustedArea(low)
             THEN NoBlock
        ELSE IF Len(text) < 15 /\ ~HasCharIn(text, SentencePunct)
                /\ ~HasCharIn(text, DigitChars)
             THEN NoBlock
        ELSE [type |-> "paragraph", text |-> text, src |-> src]

\* int(elem.name[1])
DigitValue(c) == CHOOSE k \in 0..9 : Ch("0123456789", k + 1) = c

\* _extract_heading
ExtractHeading(t, n, cfg) ==
    LET text == Strip(VisibleText(t, n))
    IN  IF text = "" THEN NoBlock
        ELSE [type |-> "heading", level |-> DigitValue(Ch(t.nodes[n].tag, 2)),
              text |-> text, src |-> SrcOf(t, n)]

\* _extract_paragraph
ExtractParagraph(t, n, cfg) ==
    LET text == Strip(VisibleText(t, n))
    IN  IF text = "" THEN NoBlock ELSE CreateParagraph(text, SrcOf(t, n))

\* the least number of items of a list block
MIN_LIST_ITEMS == 2

\* the body of _extract_list, for a least number of items
ListOfAtLeast(t, n, cfg, least) ==
    LET lis == SelectSeq(Kids(t, n), LAMBDA i : t.nodes[i].tag = "li")
        IconTextElem(li) ==  \* li.find(class_=re.compile('elementor-icon-list-text'))
            LET hits == {i \in t.alive : /\ IsAncestor(t, li, i)
                                         /\ Contains(ClassStr(t.nodes[i]),
                                                     "elementor-icon-list-text")}
            IN  IF hits = {} THEN li ELSE CHOOSE i \in hits : \A j \in hits : i <= j
        iconList == t.nodes[n].tag = "ul"
                    /\ Contains(ClassStr(t.nodes[n]), "elementor-icon-list-items")
        srcIcon == [k \in 1..Len(lis) |-> IconTextElem(lis[k])]
        NonEmpty(elems) ==
            SelectSeq(elems, LAMBDA i : Strip(VisibleText(t, i)) # "")
        iconElems == IF iconList THEN NonEmpty(srcIcon) ELSE <<>>
        elems == IF iconElems # <<>> THEN iconElems ELSE NonEmpty(lis)
    IN  IF Len(elems) < least THEN NoBlock
        ELSE [type |-> "list", ordered |-> (t.nodes[n].tag = "ol"),
              items |-> [k \in 1..Len(elems) |->
                            Strip(VisibleText(t, elems[k]))],
              src |-> UNION {SrcOf(t, elems[k]) : k \in 1..Len(elems)}]

\* a list extractor that keeps a list of one item
ExtractListOfOne(t, n, cfg) == ListOfAtLeast(t, n, cfg, 1)

\* _extract_list
ExtractList(t, n, cfg) == ListOfAtLeast(t, n, cfg, MIN_LIST_ITEMS)

\* _extract_table
ExtractTable(t, n, cfg) ==
    LET trs == SelectSeq(Descendants(t, n), LAMBDA i : t.nodes[i].tag = "tr")
        Cells(tr) == SelectSeq(Descendants(t, tr),
                               LAMBDA i : t.nodes[i].tag \in {"td", "th"})
        full == SelectSeq(trs, LAMBDA tr : Cells(tr) # <<>>)
    IN  IF full = <<>> THEN NoBlock
        ELSE [type |-> "table",
              rows |-> [r \in 1..Len(full) |->
                          [c \in 1..Len(Cells(full[r])) |->
                              Strip(VisibleText(t, Cells(full[r])[c]))]],
              src |-> UNION {SrcOf(t, c) :
                               c \in UNION {Range(Cells(full[r])) : r \in 1..Len(full)}}]

(***************************************************************************)
(* Links, buttons and CTAs                                                 *)
(***************************************************************************)
IsDigitAt(s, i) == i >= 1 /\ i <= Len(s) /\ Ch(s, i) \in DigitChars

\* re.match(r'^\d{1,2}[/-]\d{1,2}[/-]\d{2,4}', s)
IsDateLead(s) ==
    \E a \in 1..2, b \in 1..2 :
        /\ \A i \in 1..a : IsDigitAt(s, i)
        /\ a + 1 <= Len(s) /\ Ch(s, a + 1) \in {"/", "-"}
        /\ \A i \in (a + 2)..(a + 1 + b) : IsDigitAt(s, i)
        /\ a + b + 2 <= Len(s) /\ Ch(s, a + b + 2) \in {"/", "-"}
        /\ IsDigitAt(s, a + b + 3) /\ IsDigitAt(s, a + b + 4)

\* [A-Z][a-z]+
IsCapWord(w) ==
    /\ Len(w) >= 2
    /\ Ch(w, 1) \in UpperChars
    /\ \A i \in 2..Len(w) : Ch(w, i) \in LowerChars

\* re.match(r'^[A-Z][a-z]+(?: [A-Z][a-z]+)?,\s*(?:[A-Z]{2}|[A-Z][a-z]+)$', s)
IsLocation(s) ==
    LET c == FindFrom(s, ",", 1)
        left == SubSeq(s, 1, c - 1)
        right == Strip(SubSeq(s, c + 1, Len(s)))
        sp == FindFrom(left, " ", 1)
    IN  /\ c > 1
        /\ \/ IsCapWord(left)
           \/ /\ sp > 0
              /\ IsCapWord(SubSeq(left, 1, sp - 1))
              /\ IsCapWord(SubSeq(left, sp + 1, Len(left)))
        /\ ~EndsWith(s, " ")
        /\ \/ Len(right) = 2 /\ Ch(right, 1) \in UpperChars /\ Ch(right, 2) \in UpperChars
           \/ IsCapWord(right)

NavTextPrefixes == {"read more", "read full", "next", "previous", "prev"}
NavClasses == {"nav", "navigation", "menu", "link-list", "location", "city", "blog-link"}

Abs(x) == IF x < 0 THEN -x ELSE x

\* _is_navigation_link
IsNavigationLink(t, n, cfg) ==
    LET lists == SelectSeq(Parents(t, n), LAMBDA p : t.nodes[p].tag \in {"ul", "ol"})
        text == Strip(VisibleText(t, n))
        low == Lower(text)
        par == Parent(t, n)
        sibs == IF par = 0 THEN <<>>
                ELSE SelectSeq(Kids(t, par), LAMBDA i : t.nodes[i].tag = "a")
        Similar(sib) ==
            LET st == Strip(VisibleText(t, sib))
            IN  IsLocation(st) \/ (Len(st) > 0 /\ Abs(Len(st) - Len(text)) < 5)
    IN  IF t.nodes[n].tag # "a" THEN FALSE
        ELSE IF lists # <<>>
             THEN ~ContainsAny(ClassStr(t.nodes[lists[1]]), {"button", "btn-group"})
        ELSE \/ \E p \in NavTextPrefixes : StartsWith(low, p)
             \/ IsDateLead(low)
             \/ (StartsWith(low, "page ") /\ IsDigitAt(low, 6))
             \/ IsLocation(text)
             \/ (Len(sibs) > 3
                 /\ Cardinality({k \in 1..Len(sibs) : Similar(sibs[k])}) >= 3)
             \/ ContainsAny(ClassStr(t.nodes[n]), NavClasses)

BUTTON_CLASS_PATTERNS ==
    {"button", "btn", "elementor-button", "wp-block-button__link",
     "wp-element-button", "cta", "call-to-action"}

\* the API endpoint patterns: trustindex\.io/api/ , /api/ , api\.
MatchesApiPattern(href) == ContainsAny(href, {"trustindex.io/api/", "/api/", "api."})

\* re.search(r'[.!?].+[.!?]', text)
HasInnerSentence(text) ==
    \E i \in 1..Len(text), j \in 1..Len(text) :
        j >= i + 2 /\ Ch(text, i) \in SentencePunct /\ Ch(text, j) \in SentencePunct

\* _is_button_like
IsButtonLike(t, n, cfg) ==
    LET nd == t.nodes[n]
        href == Lower(Get(nd, "href", ""))
        insideForm == \E p \in Range(Parents(t, n)) : t.nodes[p].tag = "form"
        formOk ==
            IF nd.tag = "a" /\ Get(nd, "href", "") # ""
            THEN ContainsAny(href, {"/contact", "/quote", "tel:", "mailto:"})
            ELSE IF nd.tag = "button"
                 THEN Lower(Get(nd, "type", "")) \notin {"submit", "reset"}
            ELSE FALSE
        text == Strip(VisibleText(t, n))
    IN  IF Hidden(t, n) THEN FALSE
        ELSE IF insideForm /\ ~formOk THEN FALSE
        ELSE IF nd.tag = "a" /\ Get(nd, "href", "") # "" /\ MatchesApiPattern(href)
             THEN FALSE
        ELSE IF nd.tag = "button"
             THEN Lower(Get(nd, "type", "")) \notin {"submit", "reset"}
        ELSE IF Get(nd, "role", "") = "button" THEN TRUE
        ELSE IF nd.tag = "a"
             THEN /\ ~IsNavigationLink(t, n, cfg)
                  /\ Len(text) <= 60
                  /\ ~HasInnerSentence(text)
                  /\ ~HasDescendantTag(t, n, {"p", "h1", "h2", "h3", "h4", "h5", "h6"})
                  /\ \/ ContainsAny(ClassStr(nd), BUTTON_CLASS_PATTERNS)
                     \/ Get(nd, "data-action", "") # ""
                     \/ Get(nd, "data-cta", "") # ""
        ELSE FALSE

\* urllib.parse.urljoin(base, url) for a base "scheme://host[/path]" and a url
\* that is scheme-qualified (returned as it is, its scheme not being the
\* base's), host-relative ("//..."), root-relative ("/...") or a plain
\* relative path without dot segments
UrlJoin(base, url) ==
    LET sch == FindFrom(base, "://", 1)
        hostStart == sch + 3
        slash == FindFrom(base, "/", hostStart)
        origin == IF slash = 0 THEN base ELSE SubSeq(base, 1, slash - 1)
        bpath == IF slash = 0 THEN "" ELSE SubSeq(base, slash, Len(base))
        dir == IF bpath = "" THEN "/" ELSE SubSeq(bpath, 1, FindLast(bpath, "/"))
        colon == FindFrom(url, ":", 1)
        firstSlash == FindFrom(url, "/", 1)
        hasScheme == colon > 1 /\ (firstSlash = 0 \/ colon < firstSlash)
    IN  IF base = "" THEN url
        ELSE IF url = "" THEN base
        ELSE IF hasScheme THEN url
        ELSE IF StartsWith(url, "//") THEN SubSeq(base, 1, sch) \o url
        ELSE IF StartsWith(url, "/") THEN origin \o url
        ELSE origin \o dir \o url

\* every href taken for an internal anchor
IsAnyHref(href) == TRUE

\* an internal anchor (router), line 1571
IsRouterHref(href) == StartsWith(href, "#")

\* _extract_cta
ExtractCta(t, n, d, cfg) ==
    LET nd == t.nodes[n]
        text == Strip(VisibleText(t, n))
        href == Get(nd, "href", "")
        base == [type |-> "cta", text |-> text, src |-> SrcOf(t, n)]
    IN  IF text = "" THEN NoBlock
        ELSE IF nd.tag = "a" /\ href # ""
             THEN IF StartsWith(href, "javascript:") \/ href = "#" THEN NoBlock
                  ELSE IF IsRouterHref(href)
                       THEN [type |-> "cta", text |-> text, src |-> base.src,
                             href |-> href, meta |-> [role |-> "router"]]
                  ELSE IF (StartsWith(href, "/") \/ ~StartsWith(href, "http"))
                          /\ d.head.canonical # ""
                       THEN [type |-> "cta", text |-> text, src |-> base.src,
                             href |-> UrlJoin(d.head.canonical, href)]
                  ELSE [type |-> "cta", text |-> text, src |-> base.src, href |-> href]
        ELSE base

(***************************************************************************)
(* Blog pages and blog feed sections                                       *)
(***************************************************************************)
\* re.search(r'/\d{4}/\d{2}/\d{2}/', url)
HasDatePath(url) ==
    \E i \in 1..Len(url) :
        /\ i + 11 <= Len(url)
        /\ Ch(url, i) = "/" /\ Ch(url, i + 5) = "/"
        /\ Ch(url, i + 8) = "/" /\ Ch(url, i + 11) = "/"
        /\ \A k \in {1, 2, 3, 4, 6, 7, 9, 10} : IsDigitAt(url, i + k)

\* _is_blog_post_page
IsBlogPostPage(d) ==
    LET url == Lower(ExtractSourceMetadata(d).url)
    IN  HasDatePath(url) \/ Contains(url, "/blog/") \/ Contains(url, "/posts/")

\* re.search(r'\d{4}[/-]\d{1,2}[/-]\d{1,2}', s)
HasNumericDate(s) ==
    \E i \in 1..Len(s), a \in 1..2 :
        /\ \A k \in 0..3 : IsDigitAt(s, i + k)
        /\ i + 4 <= Len(s) /\ Ch(s, i + 4) \in {"/", "-"}
        /\ \A k \in 1..a : IsDigitAt(s, i + 4 + k)
        /\ i + 5 + a <= Len(s) /\ Ch(s, i + 5 + a) \in {"/", "-"}
        /\ IsDigitAt(s, i + 6 + a)

MonthNames ==
    {"january", "february", "march", "april", "may", "june", "july", "august",
     "september", "october", "november", "december"}

WordChars == UpperChars \cup LowerChars \cup DigitChars \cup {"_"}

IsWordAt(s, i) == i >= 1 /\ i <= Len(s) /\ Ch(s, i) \in WordChars

\* the first position at or after i that holds no space
RECURSIVE SkipSpaces(_, _)
SkipSpaces(s, i) == IF i <= Len(s) /\ Ch(s, i) = " " THEN SkipSpaces(s, i + 1) ELSE i

\* re.search(r'\b(January|...|December)\s+\d{1,2},?\s+\d{4}\b', s, re.I)
HasMonthDate(s0) ==
    LET s == Lower(s0)
    IN  \E i \in 1..Len(s), m \in MonthNames, dd \in 1..2, comma \in 0..1 :
            LET afterMonth == i + Len(m)
                day == SkipSpaces(s, afterMonth)
                afterDay == day + dd + comma
                year == SkipSpaces(s, afterDay)
            IN  /\ afterMonth - 1 <= Len(s)
                /\ SubSeq(s, i, afterMonth - 1) = m
                /\ ~IsWordAt(s, i - 1)
                /\ day > afterMonth
                /\ \A k \in 0..(dd - 1) : IsDigitAt(s, day + k)
                /\ comma = 1 => (day + dd <= Len(s) /\ Ch(s, day + dd) = ",")
                /\ year > afterDay
                /\ \A k \in 0..3 : IsDigitAt(s, year + k)
                /\ ~IsWordAt(s, year + 4)

Headings == {"h1", "h2", "h3", "h4", "h5", "h6"}

\* the class tokens of a node as token -> number of occurrences
ClassBag(n) ==
    LET toks == Tokens(Get(n, "class", ""))
    IN  [k \in Range(toks) |-> Cardinality({i \in 1..Len(toks) : toks[i] = k})]

\* s[:k]
Prefix(s, k) == SubSeq(s, 1, IF Len(s) < k THEN Len(s) ELSE k)

\* _is_blog_feed_section
IsBlogFeedSection(t, n, cfg) ==
    LET kids == Kids(t, n)
        ds == Descendants(t, n)
        ind1 == \E h \in Range(ds) :
                    /\ t.nodes[h].tag \in Headings
                    /\ ContainsAny(Lower(VisibleText(t, h)),
                                   {"blog", "latest posts", "news", "recent posts",
                                    "articles"})
        dated == {k \in 1..Len(Prefix(kids, 10)) :
                    LET txt == VisibleText(t, kids[k])
                    IN  HasMonthDate(txt) \/ HasNumericDate(txt)}
        links == Prefix(SelectSeq(ds, LAMBDA i : t.nodes[i].tag = "a"), 10)
        blogLinks == {k \in 1..Len(links) :
                        ContainsAny(Lower(Get(t.nodes[links[k]], "href", "")),
                                    {"/blog/", "/post/", "/article/", "/news/",
                                     "/\\d{4}/"})}
        firstFive == Prefix(kids, 5)
        ind4 == /\ Len(kids) >= 3
                /\ Cardinality({t.nodes[firstFive[k]].tag : k \in 1..Len(firstFive)}) = 1
                /\ Cardinality({ClassBag(t.nodes[firstFive[k]]) :
                                   k \in 1..Len(firstFive)}) <= 2
        B(b) == IF b THEN 1 ELSE 0
    IN  /\ t.nodes[n].tag \in {"div", "section", "article"}
        /\ B(ind1) + B(Cardinality(dated) >= 2) + B(Cardinality(blogLinks) >= 2)
              + B(ind4) >= 2

(***************************************************************************)
(* Anchor-based pseudo-tabsets: detection                                  *)
(***************************************************************************)
\* str.lstrip('#')
RECURSIVE LStripHash(_)
LStripHash(s) ==
    IF s # "" /\ Ch(s, 1) = "#" THEN LStripHash(SubSeq(s, 2, Len(s))) ELSE s

\* the test _detect_pseudo_tabset makes on an anchor: a fragment href whose
\* target is in the id index, and a visible text
IsFragmentAnchor(t, a, index, cfg) ==
    /\ t.nodes[a].tag = "a"
    /\ StartsWith(Get(t.nodes[a], "href", ""), "#")
    /\ LStripHash(Get(t.nodes[a], "href", "")) \in DOMAIN index
    /\ Strip(VisibleText(t, a)) # ""

\* the descendants pass: an anchor equal (Tag.__eq__) to one already
\* collected is not added again
RECURSIVE AddAnchors(_, _, _)
AddAnchors(t, acc, cands) ==
    IF cands = <<>> THEN acc
    ELSE AddAnchors(t,
                    IF \E k \in 1..Len(acc) : TagEq(t, acc[k], cands[1])
                    THEN acc ELSE Append(acc, cands[1]),
                    Tail(cands))

\* the anchors among the direct children
DirectAnchors(t, n, index, cfg) ==
    SelectSeq(Kids(t, n), LAMBDA a : IsFragmentAnchor(t, a, index, cfg))

\* fewer than two direct anchors: the descendants are searched too
AnchorsFrom(t, n, index, cfg, direct) ==
    IF Len(direct) >= 2 THEN direct
    ELSE AddAnchors(t, direct,
                    SelectSeq(Descendants(t, n),
                              LAMBDA a : IsFragmentAnchor(t, a, index, cfg)))

\* the list fragment_anchors
FragmentAnchors(t, n, index, cfg) ==
    AnchorsFrom(t, n, index, cfg, DirectAnchors(t, n, index, cfg))

\* the members of anchors whose key is the key of anchors[best]
GroupOfKey(anchors, keys, best) ==
    LET at == SortedSeq({k \in 1..Len(anchors) : keys[k] = keys[best]})
    IN  [i \in 1..Len(at) |-> anchors[at[i]]]

\* the largest group whose key is the greatest address
LargestGroupByAddress(anchors, keys) ==
    LET Size(i) == Cardinality({k \in 1..Len(anchors) : keys[k] = keys[i]})
    IN  IF anchors = <<>> THEN <<>>
        ELSE GroupOfKey(anchors, keys,
                        CHOOSE i \in 1..Len(anchors) :
                            \A j \in 1..Len(anchors) :
                                \/ Size(j) < Size(i)
                                \/ Size(j) = Size(i) /\ keys[j] <= keys[i])

\* max(groups.values(), key=len) for the groups of a dict that keeps its keys
\* in insertion order: the first of the largest groups.  keys[k] is the key
\* of anchors[k].
LargestGroup(anchors, keys) ==
    LET Size(i) == Cardinality({k \in 1..Len(anchors) : keys[k] = keys[i]})
    IN  IF anchors = <<>> THEN <<>>
        ELSE GroupOfKey(anchors, keys,
                        CHOOSE i \in 1..Len(anchors) :
                            /\ \A j \in 1..Len(anchors) : Size(j) <= Size(i)
                            /\ \A j \in 1..(i - 1) : Size(j) < Size(i))

\* the element above the top of the working tree: the body of the re-parsed
\* copy.  It holds every node of the tree and equals none of them.
CopyBody == -1

\* id(element): its address; the elements outside the working copy have
\* addresses of their own
Id(t, n) == IF n \in DOMAIN t.addr THEN t.addr[n] ELSE n

\* anchor.parent.parent
GrandParent(t, a) ==
    IF Parent(t, Parent(t, a)) = 0 THEN CopyBody ELSE Parent(t, Parent(t, a))

\* the largest group by parent when it has two anchors, else by grandparent
GroupOr(t, anchors, byParent) ==
    IF Len(byParent) >= 2 THEN byParent
    ELSE LargestGroup(anchors,
                      [k \in 1..Len(anchors) |-> Id(t, GrandParent(t, anchors[k]))])

\* the list largest_group
AnchorGroup(t, anchors) ==
    GroupOr(t, anchors,
            LargestGroup(anchors,
                         [k \in 1..Len(anchors) |-> Id(t, Parent(t, anchors[k]))]))

\* the walk from the first anchor's parent up to a container of the group
RECURSIVE FindContainer(_, _, _, _)
FindContainer(t, c, group, level) ==
    IF c = CopyBody \/ level >= 5 THEN c
    ELSE IF \A k \in 1..Len(group) :
                \E p \in Range(Parents(t, group[k])) : TagEq(t, p, c)
         THEN c
    ELSE FindContainer(t, IF Parent(t, c) = 0 THEN CopyBody ELSE Parent(t, c),
                       group, level + 1)

\* list.sort(key=...) on a sequence of [key, val] records: stable
RECURSIVE StableSort(_)
StableSort(s) ==
    IF s = <<>> THEN <<>>
    ELSE LET m == CHOOSE i \in 1..Len(s) :
                      \A j \in 1..Len(s) :
                          s[i].key < s[j].key \/ (s[i].key = s[j].key /\ i <= j)
         IN  <<s[m].val>> \o StableSort(SubSeq(s, 1, m - 1) \o SubSeq(s, m + 1, Len(s)))

\* the (text, tid) pair of an anchor
AnchorText(t, a) == Strip(VisibleText(t, a))

AnchorTarget(t, a) == LStripHash(Get(t.nodes[a], "href", ""))

SameAnchor(t, a, b) ==
    AnchorText(t, a) = AnchorText(t, b) /\ AnchorTarget(t, a) = AnchorTarget(t, b)

\* get_dom_position: the first anchor of the group with the same text and
\* target ...
FirstLike(t, group, a) ==
    group[CHOOSE k \in 1..Len(group) :
              /\ SameAnchor(t, group[k], a)
              /\ \A j \in 1..(k - 1) : ~SameAnchor(t, group[j], a)]

\* ... and the number of element siblings before it
SiblingIndex(t, a) == Cardinality({i \in Range(Kids(t, Parent(t, a))) : i < a})

\* anchor_list.sort(key=get_dom_position)
SortByDomPosition(t, group) ==
    StableSort([k \in 1..Len(group) |->
                   [key |-> SiblingIndex(t, FirstLike(t, group, group[k])),
                    val |-> group[k]]])

\* anchor_list, each entry with the nodes its text was read from
AnchorList(t, sorted) ==
    [k \in 1..Len(sorted) |->
        [text |-> AnchorText(t, sorted[k]), tid |-> AnchorTarget(t, sorted[k]),
         src |-> SrcOf(t, sorted[k])]]

NoTabset == [found |-> FALSE, container |-> 0, anchors |-> <<>>]

\* the checks on the anchors and on their largest group, and the result
TabsetOfGroup(t, anchors, group) ==
    IF Len(anchors) < 2 \/ Len(anchors) > 8 THEN NoTabset
    ELSE IF Cardinality({AnchorTarget(t, anchors[k]) : k \in 1..Len(anchors)}) < 2
         THEN NoTabset
    ELSE IF Len(group) < 2 THEN NoTabset
    ELSE [found |-> TRUE,
          container |-> FindContainer(t, Parent(t, group[1]), group, 0),
          anchors |-> AnchorList(t, SortByDomPosition(t, group))]

TabsetOfAnchors(t, anchors) == TabsetOfGroup(t, anchors, AnchorGroup(t, anchors))

\* _detect_pseudo_tabset: found is FALSE for None; anchors is the list of
\* (text, tid) in the order the code returns it
DetectPseudoTabset(t, n, index, cfg) ==
    IF t.nodes[n].tag \notin {"div", "section", "article", "nav", "ul", "ol", "p"}
    THEN NoTabset
    ELSE TabsetOfAnchors(t, FragmentAnchors(t, n, index, cfg))

\* _looks_like_faq_question
LooksLikeFaqQuestion(text) ==
    LET low == Lower(text)
    IN  \/ \E w \in {"what", "who", "where", "when", "why", "how", "can", "do",
                     "does", "is", "are", "will", "would"} : StartsWith(low, w \o " ")
        \/ EndsWith(low, "?")
        \/ StartsWith(low, "faq")

(***************************************************************************)
(* Card grids                                                              *)
(***************************************************************************)
\* the first element of a sequence of nodes, 0 for an empty one (find -> None)
First(s) == IF s = <<>> THEN 0 ELSE s[1]

\* the elements of s in order, each once
RECURSIVE Uniq(_)
Uniq(s) ==
    IF s = <<>> THEN <<>>
    ELSE LET r == Uniq(SubSeq(s, 1, Len(s) - 1))
         IN  IF s[Len(s)] \in Range(r) THEN r ELSE Append(r, s[Len(s)])

\* int(s) succeeds: an optional sign and decimal digits, spaces around allowed
IsIntLiteral(s0) ==
    LET s == Strip(s0)
        body == IF s # "" /\ Ch(s, 1) \in {"+", "-"} THEN SubSeq(s, 2, Len(s)) ELSE s
    IN  body # "" /\ \A i \in 1..Len(body) : Ch(body, i) \in DigitChars

RECURSIVE DigitsValue(_)
DigitsValue(s) ==
    IF s = "" THEN 0
    ELSE 10 * DigitsValue(SubSeq(s, 1, Len(s) - 1)) + DigitValue(Ch(s, Len(s)))

\* int(s) for a string IsIntLiteral accepts
IntValue(s0) ==
    LET s == Strip(s0)
    IN  IF Ch(s, 1) = "-" THEN 0 - DigitsValue(SubSeq(s, 2, Len(s)))
        ELSE IF Ch(s, 1) = "+" THEN DigitsValue(SubSeq(s, 2, Len(s)))
        ELSE DigitsValue(s)

\* _is_likely_grid_container
IsLikelyGridContainer(t, n) ==
    \/ ContainsAny(ClassStr(t.nodes[n]),
                   {"carousel", "swiper", "grid", "cards", "elementor-carousel",
                    "elementor-widget-n-carousel"})
    \/ Cardinality({GetTextTight(t, h) :
                      h \in {i \in Range(Descendants(t, n)) :
                                t.nodes[i].tag = "h4" /\ GetTextTight(t, i) # ""}}) >= 6

\* _detect_card_grid.find_title_element, 0 for None
FindTitleElement(t, card) ==
    LET ds == Descendants(t, card)
        hs == SelectSeq(ds, LAMBDA i : t.nodes[i].tag \in {"h2", "h3", "h4"})
        rs == SelectSeq(ds, LAMBDA i : Get(t.nodes[i], "role", "") = "heading")
        cl == SelectSeq(ds, LAMBDA i : ContainsAny(ClassStr(t.nodes[i]),
                                                   {"title", "card-title", "heading"}))
    IN  IF hs # <<>> THEN hs[1] ELSE IF rs # <<>> THEN rs[1] ELSE First(cl)

\* the description element of a card: its first p, else its first div with
\* more than 30 characters and no heading or list child; 0 for none
CardDescription(t, card, cfg) ==
    LET ds == Descendants(t, card)
        ps == SelectSeq(ds, LAMBDA i : t.nodes[i].tag = "p")
        divs == SelectSeq(ds, LAMBDA i :
                    /\ t.nodes[i].tag = "div"
                    /\ Len(Strip(VisibleText(t, i))) > 30
                    /\ ~\E c \in Range(Kids(t, i)) :
                           t.nodes[c].tag \in {"h2", "h3", "h4", "ul", "ol"})
    IN  IF ps # <<>> THEN ps[1] ELSE First(divs)

\* the level of a card title: of its tag, else int(aria-level), else 4
TitleLevel(t, te) ==
    IF t.nodes[te].tag \in {"h2", "h3", "h4"} THEN DigitValue(Ch(t.nodes[te].tag, 2))
    ELSE IF Get(t.nodes[te], "aria-level", "") # ""
         THEN IntValue(Get(t.nodes[te], "aria-level", ""))
    ELSE 4

\* the heading block of a card
CardHeading(t, te) ==
    [type |-> "heading", level |-> TitleLevel(t, te), text |-> GetTextTight(t, te),
     src |-> TextNodes(t, te)]

\* the text of the description element para, "" when there is none
DescriptionText(t, para) == IF para = 0 THEN "" ELSE Strip(VisibleText(t, para))

\* the blocks of a card: the description follows the heading when it has
\* 20 characters and makes a paragraph
CardResult(heading, ptext, pblock) ==
    IF Len(ptext) >= 20
    THEN [err |-> "", desc |-> 1,
          blocks |-> IF pblock = NoBlock THEN <<heading>> ELSE <<heading, pblock>>]
    ELSE [err |-> "", blocks |-> <<heading>>, desc |-> 0]

\* the body of the loop over the card candidates, lines 2467-2502, for the
\* title element te and the description element para: [err, blocks, desc]
CardOf(t, te, para) ==
    IF Len(GetTextTight(t, te)) < 3 THEN [err |-> "", blocks |-> <<>>, desc |-> 0]
    ELSE IF /\ t.nodes[te].tag \notin {"h2", "h3", "h4"}
            /\ Get(t.nodes[te], "aria-level", "") # ""
            /\ ~IsIntLiteral(Get(t.nodes[te], "aria-level", ""))
         THEN [err |-> "ValueError", blocks |-> <<>>, desc |-> 0]
    ELSE CardResult(CardHeading(t, te), DescriptionText(t, para),
                    CreateParagraph(DescriptionText(t, para), SrcOf(t, para)))

CardBlocks(t, card, cfg) ==
    CardOf(t, FindTitleElement(t, card), CardDescription(t, card, cfg))

RECURSIVE Concat(_)
Concat(ss) == IF ss = <<>> THEN <<>> ELSE ss[1] \o Concat(Tail(ss))

\* a title element with a text
HasTitle(t, te) == te # 0 /\ GetTextTight(t, te) # ""

\* card_candidates: the visible children with a title
CardCandidates(t, n) ==
    SelectSeq(Kids(t, n), LAMBDA c : ~Hidden(t, c) /\ HasTitle(t, FindTitleElement(t, c)))

\* the title text of each candidate
CardTitles(t, cands) ==
    [k \in 1..Len(cands) |-> GetTextTight(t, FindTitleElement(t, cands[k]))]

\* the nodes the titles are read from
TitleSrc(t, cands) ==
    UNION {TextNodes(t, FindTitleElement(t, cands[k])) : k \in 1..Len(cands)}

\* the structure signature of a candidate: its tag and first two classes
StructKey(t, c) ==
    <<t.nodes[c].tag, Lower(Join(Prefix(Tokens(Get(t.nodes[c], "class", "")), 2), " "))>>

\* the checks on the candidates and the blocks of the grid; titles[k] and
\* cards[k] are the title and the CardBlocks of cands[k]
GridOfCards(t, cands, titles, cards) ==
    LET none == [err |-> "", blocks |-> <<>>]
        Count(c) == Cardinality({k \in 1..Len(cands) :
                                    StructKey(t, cands[k]) = StructKey(t, c)})
        first8 == {Lower(titles[k]) : k \in 1..Len(Prefix(cands, 8))}
    IN  IF Len(cands) < 6 THEN none
        ELSE IF \A k \in 1..Len(cands) : Count(cands[k]) < 6 THEN none
        ELSE IF Cardinality(first8) # Len(Prefix(cands, 8)) THEN none
        ELSE IF \E k \in 1..Len(cands) : cards[k].err # ""
             THEN [err |-> "ValueError", blocks |-> <<>>]
        ELSE IF 10 * SumSeq([k \in 1..Len(cands) |-> cards[k].desc]) < 6 * Len(cands)
             THEN IF Len(Uniq(titles)) >= 6
                  THEN [err |-> "",
                        blocks |-> <<[type |-> "list", ordered |-> FALSE,
                                      items |-> Uniq(titles),
                                      src |-> TitleSrc(t, cands)]>>]
                  ELSE none
        ELSE [err |-> "", blocks |-> Concat([k \in 1..Len(cands) |-> cards[k].blocks])]

GridOfCandidates(t, cfg, cands) ==
    GridOfCards(t, cands, CardTitles(t, cands),
                [k \in 1..Len(cands) |-> CardBlocks(t, cands[k], cfg)])

\* _detect_card_grid: [err, blocks]; blocks is empty for None
DetectCardGrid(t, n, ctx, index, cfg) ==
    IF ctx.in_tab_panel \/ ctx.in_nav THEN [err |-> "", blocks |-> <<>>]
    ELSE IF HasDescendantTag(t, n, {"form"}) THEN [err |-> "", blocks |-> <<>>]
    ELSE IF ContainsAny(ClassStr(t.nodes[n]),
                        {"swiper", "carousel", "marquee", "ticker", "loop", "slider"})
         THEN [err |-> "", blocks |-> <<>>]
    ELSE IF DetectPseudoTabset(t, n, index, cfg).found THEN [err |-> "", blocks |-> <<>>]
    ELSE IF ~IsLikelyGridContainer(t, n) THEN [err |-> "", blocks |-> <<>>]
    ELSE GridOfCandidates(t, cfg, CardCandidates(t, n))

(***************************************************************************)
(* The walker                                                              *)
(*                                                                         *)
(* e is the extractor while it walks: [t, d, cfg, idx] (main_content, the  *)
(* document, the configuration, main_content_id_index).  st is what a call *)
(* changes: [blocks, consumed, err], the list it appends to,               *)
(* consumed_panel_nodes and the exception in flight ("" for none).  path   *)
(* is the set of calls of _extract_blocks_recursive on the stack, each as  *)
(* (element, in_tab_panel, in_nav, consumed_panel_nodes): what a call does *)
(* is a function of these, so a call that is already on the stack never    *)
(* returns and Python ends it with RecursionError.                         *)
(***************************************************************************)
\* _normalize_context(None)
DefaultContext == [in_tab_panel |-> FALSE, in_nav |-> FALSE, depth |-> 0]

\* _normalize_context({"in_tab_panel": True})
PanelContext == [in_tab_panel |-> TRUE, in_nav |-> FALSE, depth |-> 0]

\* _is_nav_container
IsNavContainer(n) == n.tag = "nav" \/ Get(n, "role", "") = "navigation"

\* _child_context
ChildContext(t, ctx, child) ==
    [ctx EXCEPT !.depth = @ + 1,
                !.in_nav = ctx.in_nav \/ IsNavContainer(t.nodes[child])]

\* _is_inside_consumed_panel
IsInsideConsumedPanel(t, n, cons) ==
    \E p \in Range(Parents(t, n)) : InTagSet(t, p, cons)

\* _is_in_tabset
IsInTabset(t, n) ==
    \E p \in Range(Parents(t, n)) : Get(t.nodes[p], "role", "") = "tablist"

\* blocks.append(b) when b is not None
Emit(st, b) == IF b = NoBlock THEN st ELSE [st EXCEPT !.blocks = Append(@, b)]

Raise(st, exc) == [st EXCEPT !.err = exc]

\* a call that appends to a new list
Fresh(st) == [st EXCEPT !.blocks = <<>>]

\* the accordion / faq block both accordion extractors build
DisclosureBlock(title, content, src) ==
    LET body == IF content = <<>>
                THEN <<[type |-> "paragraph",
                        text |-> "Insufficient evidence: answer container not found in DOM",
                        src |-> {}]>>
                ELSE content
    IN  IF EndsWith(Strip(title), "?") \/ LooksLikeFaqQuestion(title)
        THEN [type |-> "faq", question |-> title, answer_blocks |-> body, src |-> src]
        ELSE [type |-> "accordion", title |-> title, content_blocks |-> body, src |-> src]

\* the elements after n among the children of its parent
NextSiblings(t, n) ==
    IF Parent(t, n) = 0 THEN <<>>
    ELSE SelectSeq(Kids(t, Parent(t, n)), LAMBDA i : i > n)

RECURSIVE ExtractBlocksRecursive(_, _, _, _, _)
RECURSIVE WalkAfterPseudoTabset(_, _, _, _, _)
RECURSIVE WalkAfterTablist(_, _, _, _, _)
RECURSIVE WalkAfterDetails(_, _, _, _, _)
RECURSIVE WalkAfterDisclosure(_, _, _, _, _)
RECURSIVE ExtractBlocksFromElement(_, _, _, _, _)
RECURSIVE WalkChildren(_, _, _, _, _)
RECURSIVE ExtractPanelBlocks(_, _, _)
RECURSIVE PseudoTabs(_, _, _, _, _)
RECURSIVE ExtractPseudoTabset(_, _, _, _)
RECURSIVE TabContent(_, _, _)
RECURSIVE TabsetTabs(_, _, _, _, _)
RECURSIVE ExtractTabset(_, _, _, _)
RECURSIVE AccordionKids(_, _, _, _, _)
RECURSIVE ExtractAccordionOrFaq(_, _, _, _)
RECURSIVE ExtractDisclosureAccordion(_, _, _, _)

\* an extractor that was not tried: no block, the state as it was
NotTried(st) == [block |-> NoBlock, st |-> st]

\* lines 987-1005, for the pseudo-tabset pt that was detected at n: it is
\* extracted when its container is n itself
WalkFromPseudoTabset(e, n, ctx, st, path, pt) ==
    WalkAfterPseudoTabset(e, n, ctx,
                          IF pt.found /\ pt.container = n
                          THEN ExtractPseudoTabset(e, pt.anchors, st, path)
                          ELSE NotTried(st),
                          path)

\* _extract_blocks_recursive, lines 957-986
ExtractBlocksRecursive(e, n, ctx, st, path) ==
    LET key == <<n, ctx.in_tab_panel, ctx.in_nav, st.consumed>>
    IN  IF st.err # "" THEN st
        ELSE IF n \notin e.t.alive THEN Raise(st, "AttributeError")
        ELSE IF key \in path THEN Raise(st, "RecursionError")
        ELSE IF InTagSet(e.t, n, st.consumed) THEN st
        ELSE IF IsInsideConsumedPanel(e.t, n, st.consumed) THEN st
        ELSE IF Hidden(e.t, n) THEN st
        ELSE IF /\ e.cfg.drop_blog_feeds_on_non_blog_pages
                /\ ~IsBlogPostPage(e.d)
                /\ IsBlogFeedSection(e.t, n, e.cfg)
             THEN st
        ELSE WalkFromPseudoTabset(e, n, ctx, st, path \cup {key},
                                  DetectPseudoTabset(e.t, n, e.idx, e.cfg))

\* _extract_blocks_recursive, lines 993-1013: r is what the pseudo-tabset
\* extractor returned; without a block from it, a tablist is tried
WalkAfterPseudoTabset(e, n, ctx, r, path) ==
    IF r.st.err # "" THEN r.st
    ELSE IF r.block # NoBlock THEN Emit(r.st, r.block)
    ELSE WalkAfterTablist(e, n, ctx,
                          IF Get(e.t.nodes[n], "role", "") = "tablist"
                          THEN ExtractTabset(e, n, r.st, path)
                          ELSE NotTried(r.st),
                          path)

\* _extract_blocks_recursive, lines 1009-1019: r is what the tablist extractor
\* returned; without a block from it, <details> is tried
WalkAfterTablist(e, n, ctx, r, path) ==
    IF r.st.err # "" THEN r.st
    ELSE IF r.block # NoBlock THEN Emit(r.st, r.block)
    ELSE WalkAfterDetails(e, n, ctx,
                          IF e.t.nodes[n].tag = "details"
                          THEN ExtractAccordionOrFaq(e, n, r.st, path)
                          ELSE NotTried(r.st),
                          path)

\* _extract_blocks_recursive, lines 1015-1026: r is what the <details>
\* extractor returned; without a block from it, a disclosure is tried
WalkAfterDetails(e, n, ctx, r, path) ==
    LET nd == e.t.nodes[n]
    IN  IF r.st.err # "" THEN r.st
        ELSE IF r.block # NoBlock THEN Emit(r.st, r.block)
        ELSE WalkAfterDisclosure(e, n, ctx,
                                 IF \/ "aria-expanded" \in DOMAIN nd.attrs
                                    \/ /\ Get(nd, "aria-controls", "") # ""
                                       /\ Get(nd, "role", "") # "tab"
                                 THEN ExtractDisclosureAccordion(e, n, r.st, path)
                                 ELSE NotTried(r.st),
                                 path)

\* _extract_blocks_recursive, lines 1021-1032: r is what the disclosure
\* extractor returned
WalkAfterDisclosure(e, n, ctx, r, path) ==
    IF r.st.err # "" THEN r.st
    ELSE IF r.block # NoBlock THEN Emit(r.st, r.block)
    ELSE IF Get(e.t.nodes[n], "role", "") = "tabpanel" /\ IsInTabset(e.t, n) THEN r.st
    ELSE ExtractBlocksFromElement(e, n, ctx, r.st, path)

\* blocks.append(r) for what an interactive extractor returned
EmitResult(r) == Emit(r.st, r.block)

\* _extract_blocks_from_element, lines 1099-1132: grid is what _detect_card_grid
\* returned; without blocks from it the children are walked
WalkUnlessCardGrid(e, n, ctx, st, path, grid) ==
    LET nd == e.t.nodes[n]
        own == Strip(nd.text)
        \* a text node child: a paragraph when its parent is a text container
        withText == IF /\ Len(own) > 10
                       /\ nd.tag \in {"p", "li", "td", "th", "h1", "h2", "h3", "h4",
                                      "h5", "h6", "summary"}
                    THEN Emit(st, CreateParagraph(own, {n}))
                    ELSE st
    IN  IF grid.err # "" THEN Raise(st, grid.err)
        ELSE IF grid.blocks # <<>> THEN [st EXCEPT !.blocks = @ \o grid.blocks]
        ELSE WalkChildren(e, Kids(e.t, n), ctx, withText, path)

\* the text-editor widget of _extract_blocks_from_element, lines 1062-1070
TextEditorParagraph(st, vtext, src) ==
    IF vtext = "" THEN st ELSE Emit(st, CreateParagraph(vtext, src))

\* _extract_blocks_from_element
ExtractBlocksFromElement(e, n, ctx, st, path) ==
    LET t == e.t
        nd == t.nodes[n]
    IN  IF nd.tag \in Headings THEN Emit(st, ExtractHeading(t, n, e.cfg))
        ELSE IF nd.tag = "p" THEN Emit(st, ExtractParagraph(t, n, e.cfg))
        ELSE IF ContainsAny(ClassStr(nd), {"text-editor", "elementor-text-editor",
                                           "elementor-widget-text-editor"})
             THEN TextEditorParagraph(st, Strip(VisibleText(t, n)), SrcOf(t, n))
        ELSE IF nd.tag \in {"ul", "ol"} THEN Emit(st, ExtractList(t, n, e.cfg))
        ELSE IF nd.tag = "table" THEN Emit(st, ExtractTable(t, n, e.cfg))
        ELSE IF nd.tag = "details" THEN EmitResult(ExtractAccordionOrFaq(e, n, st, path))
        ELSE IF Get(nd, "role", "") = "tablist"
             THEN EmitResult(ExtractTabset(e, n, st, path))
        ELSE WalkUnlessCardGrid(e, n, ctx, st, path,
                                DetectCardGrid(t, n, ctx, e.idx, e.cfg))

\* the button-like child of lines 1124-1128: its CTA is appended, or the
\* child is walked when there is none
WalkChild(e, c, ctx, st, path, cta) ==
    IF IsButtonLike(e.t, c, e.cfg) /\ cta # NoBlock THEN Emit(st, cta)
    ELSE ExtractBlocksRecursive(e, c, ChildContext(e.t, ctx, c), st, path)

\* the loop over the element children, lines 1118-1132
WalkChildren(e, ks, ctx, st, path) ==
    IF ks = <<>> \/ st.err # "" THEN st
    ELSE WalkChildren(e, Tail(ks), ctx,
                      IF Hidden(e.t, ks[1]) THEN st
                      ELSE WalkChild(e, ks[1], ctx, st, path,
                                     ExtractCta(e.t, ks[1], e.d, e.cfg)),
                      path)

\* _extract_panel_blocks: the walk starts with no consumed node, and the
\* consumed nodes are restored after it
ExtractPanelBlocks(e, panel, path) ==
    LET r == ExtractBlocksRecursive(e, panel, PanelContext,
                                    [blocks |-> <<>>, consumed |-> {}, err |-> ""], path)
    IN  [blocks |-> r.blocks, err |-> r.err, panel |-> panel]

\* the loop of _extract_pseudo_tabset, lines 1957-1993
PseudoTabs(e, anchors, st, path, tabs) ==
    LET a == anchors[1]
        panel == e.idx[a.tid]
        r == ExtractPanelBlocks(e, panel, path)
        kept == SelectSeq(r.blocks, LAMBDA b :
                    ~(Strip(BGet(b, "text", "")) # ""
                      /\ Strip(BGet(b, "text", "")) = a.text))
    IN  IF anchors = <<>> \/ st.err # "" THEN [tabs |-> tabs, st |-> st]
        ELSE IF a.tid \notin DOMAIN e.idx
             THEN PseudoTabs(e, Tail(anchors), st, path,
                             Append(tabs, [title |-> a.text, content_blocks |-> <<>>,
                                           panel |-> 0, src |-> a.src]))
        ELSE IF r.err # "" THEN [tabs |-> tabs, st |-> Raise(st, r.err)]
        ELSE PseudoTabs(e, Tail(anchors),
                        [st EXCEPT !.consumed = @ \cup {panel}], path,
                        Append(tabs, [title |-> a.text, content_blocks |-> kept,
                                      panel |-> panel, src |-> a.src]))

\* _extract_pseudo_tabset
ExtractPseudoTabset(e, anchors, st, path) ==
    LET r == PseudoTabs(e, anchors, st, path, <<>>)
    IN  IF r.st.err # "" THEN [block |-> NoBlock, st |-> r.st]
        ELSE IF Len(r.tabs) < 2 THEN [block |-> NoBlock, st |-> r.st]
        ELSE [block |-> [type |-> "tabset", tabs |-> r.tabs], st |-> r.st]

\* the panel a tab names with aria-controls, data-target or data-tab,
\* lines 1729-1737
ControlledPanel(e, tab, path) ==
    LET nd == e.t.nodes[tab]
        pid0 == IF Get(nd, "aria-controls", "") # "" THEN nd.attrs["aria-controls"]
                ELSE IF Get(nd, "data-target", "") # "" THEN nd.attrs["data-target"]
                ELSE Get(nd, "data-tab", "")
    IN  IF pid0 # "" /\ LStripHash(pid0) \in DOMAIN e.idx
        THEN ExtractPanelBlocks(e, e.idx[LStripHash(pid0)], path)
        ELSE [blocks |-> <<>>, err |-> "", panel |-> 0]

\* the first tabpanel labelled by the id of the tab, 0 for none
LabelledPanel(t, tab) ==
    IF Get(t.nodes[tab], "id", "") = "" THEN 0
    ELSE First(SelectSeq(Descendants(t, t.root), LAMBDA i :
                  /\ Get(t.nodes[i], "role", "") = "tabpanel"
                  /\ "aria-labelledby" \in DOMAIN t.nodes[i].attrs
                  /\ t.nodes[i].attrs["aria-labelledby"] = Get(t.nodes[tab], "id", "")))

\* the first following sibling that is a tabpanel, 0 for none
SiblingPanel(t, tab) ==
    First(SelectSeq(NextSiblings(t, tab), LAMBDA i :
              Get(t.nodes[i], "role", "") = "tabpanel"))

\* the next lookup is made while no content has been found
PanelOr(e, r, panel, path) ==
    IF r.err = "" /\ r.blocks = <<>> /\ panel # 0
    THEN ExtractPanelBlocks(e, panel, path) ELSE r

\* the panel lookup of _extract_tabset for one tab, lines 1729-1756
TabContent(e, tab, path) ==
    PanelOr(e, PanelOr(e, ControlledPanel(e, tab, path), LabelledPanel(e.t, tab), path),
            SiblingPanel(e.t, tab), path)

\* the entry of a tab whose content is r
TabOf(t, tab, r) ==
    [title |-> Strip(VisibleText(t, tab)), content_blocks |-> r.blocks,
     panel |-> IF r.blocks = <<>> THEN 0 ELSE r.panel, src |-> SrcOf(t, tab)]

RECURSIVE TabAdded(_, _, _, _, _, _)
\* the loop of _extract_tabset over the tab elements, lines 1724-1762
TabsetTabs(e, tabElems, st, path, tabs) ==
    IF tabElems = <<>> \/ st.err # "" THEN [tabs |-> tabs, st |-> st]
    ELSE IF Strip(VisibleText(e.t, tabElems[1])) = ""
         THEN TabsetTabs(e, Tail(tabElems), st, path, tabs)
    ELSE TabAdded(e, tabElems, st, path, tabs, TabContent(e, tabElems[1], path))

\* the rest of the loop once the content r of the first tab is known
TabAdded(e, tabElems, st, path, tabs, r) ==
    IF r.err # "" THEN [tabs |-> tabs, st |-> Raise(st, r.err)]
    ELSE TabsetTabs(e, Tail(tabElems), st, path,
                    Append(tabs, TabOf(e.t, tabElems[1], r)))

\* the tab elements: the descendants with role=tab, else the children whose
\* class contains "tab"
TabElements(t, n) ==
    LET byRole == SelectSeq(Descendants(t, n),
                            LAMBDA i : Get(t.nodes[i], "role", "") = "tab")
    IN  IF byRole # <<>> THEN byRole
        ELSE SelectSeq(Kids(t, n), LAMBDA i : Contains(ClassStr(t.nodes[i]), "tab"))

\* the tabset of the tabs collected: any tab makes one (line 1764)
TabsetOfTabs(r) ==
    IF r.st.err # "" \/ r.tabs = <<>> THEN [block |-> NoBlock, st |-> r.st]
    ELSE [block |-> [type |-> "tabset", tabs |-> r.tabs], st |-> r.st]

\* _extract_tabset
ExtractTabset(e, n, st, path) ==
    IF TabElements(e.t, n) = <<>> THEN [block |-> NoBlock, st |-> st]
    ELSE TabsetOfTabs(TabsetTabs(e, TabElements(e.t, n), st, path, <<>>))

\* a paragraph as a list of blocks: empty for None
ParagraphSeq(b) == IF b = NoBlock THEN <<>> ELSE <<b>>

\* what a child of details adds: its blocks, else its text as a paragraph
KidContent(t, c, walked) ==
    IF walked # <<>> THEN walked
    ELSE IF Strip(VisibleText(t, c)) = "" THEN <<>>
    ELSE ParagraphSeq(CreateParagraph(Strip(VisibleText(t, c)), SrcOf(t, c)))

RECURSIVE AccordionKid(_, _, _, _, _, _)
\* the loop of _extract_accordion_or_faq over the element children,
\* lines 1599-1608: [content, st]
AccordionKids(e, ks, st, path, content) ==
    IF ks = <<>> \/ st.err # "" THEN [content |-> content, st |-> st]
    ELSE IF e.t.nodes[ks[1]].tag = "summary"
         THEN AccordionKids(e, Tail(ks), st, path, content)
    ELSE AccordionKid(e, ks, st, path, content,
                      ExtractBlocksRecursive(e, ks[1], DefaultContext, Fresh(st), path))

\* the rest of the loop once the first child has been walked with result r
AccordionKid(e, ks, st, path, content, r) ==
    IF r.err # "" THEN [content |-> content, st |-> Raise(st, r.err)]
    ELSE AccordionKids(e, Tail(ks), [st EXCEPT !.consumed = r.consumed], path,
                       content \o KidContent(e.t, ks[1], r.blocks))

\* the text directly inside details, as a paragraph, lines 1594-1598
LeadParagraph(own, n) ==
    IF Len(own) > 10 THEN ParagraphSeq(CreateParagraph(own, {n})) ELSE <<>>

\* the block of a details element with summary element summary and
\* content r
AccordionBlock(t, summary, r) ==
    IF r.st.err # "" THEN [block |-> NoBlock, st |-> r.st]
    ELSE [block |-> DisclosureBlock(Strip(VisibleText(t, summary)), r.content,
                                    SrcOf(t, summary)),
          st |-> r.st]

AccordionOf(e, n, st, path, summary) ==
    IF summary = 0 THEN [block |-> NoBlock, st |-> st]
    ELSE IF Strip(VisibleText(e.t, summary)) = "" THEN [block |-> NoBlock, st |-> st]
    ELSE AccordionBlock(e.t, summary,
                        AccordionKids(e, Kids(e.t, n), st, path,
                                      LeadParagraph(Strip(e.t.nodes[n].text), n)))

\* _extract_accordion_or_faq
ExtractAccordionOrFaq(e, n, st, path) ==
    AccordionOf(e, n, st, path,
                First(SelectSeq(Descendants(e.t, n),
                                LAMBDA i : e.t.nodes[i].tag = "summary")))

\* the aria-controls target of a disclosure button, walked into a new list
ControlledContent(e, n, st, path) ==
    IF /\ Get(e.t.nodes[n], "aria-controls", "") # ""
       /\ Get(e.t.nodes[n], "aria-controls", "") \in DOMAIN e.idx
    THEN ExtractBlocksRecursive(e, e.idx[Get(e.t.nodes[n], "aria-controls", "")],
                                DefaultContext, Fresh(st), path)
    ELSE Fresh(st)

\* parent.find(class_=re.compile(r'elementor-accordion-content', re.I)); the
\* parent of the top element holds the whole tree
AccordionContent(t, n) ==
    First(SelectSeq(IF Parent(t, n) = 0 THEN SortedSeq(Subtree(t, t.root))
                    ELSE Descendants(t, Parent(t, n)),
                    LAMBDA i : Contains(ClassStr(t.nodes[i]),
                                        "elementor-accordion-content")))

\* the nearest following sibling that looks like a panel
PanelSibling(t, n) ==
    First(SelectSeq(NextSiblings(t, n), LAMBDA i :
              \/ Get(t.nodes[i], "role", "") = "region"
              \/ ContainsAny(ClassStr(t.nodes[i]), {"panel", "content", "answer"})
              \/ t.nodes[i].tag \in {"div", "section", "article"}))

\* the next place is walked while content_blocks is empty
WalkIfEmpty(e, r, target, path) ==
    IF r.err = "" /\ r.blocks = <<>> /\ target # 0
    THEN ExtractBlocksRecursive(e, target, DefaultContext, r, path)
    ELSE r

\* the block of a disclosure button whose content walk ended in r
DisclosureOf(t, n, st, r) ==
    IF r.err # ""
    THEN [block |-> NoBlock, st |-> [st EXCEPT !.consumed = r.consumed, !.err = r.err]]
    ELSE [block |-> DisclosureBlock(Strip(VisibleText(t, n)), r.blocks, SrcOf(t, n)),
          st |-> [st EXCEPT !.consumed = r.consumed, !.err = r.err]]

\* _extract_disclosure_accordion
ExtractDisclosureAccordion(e, n, st, path) ==
    IF Strip(VisibleText(e.t, n)) = "" THEN [block |-> NoBlock, st |-> st]
    ELSE DisclosureOf(e.t, n, st,
                      WalkIfEmpty(e,
                                  WalkIfEmpty(e, ControlledContent(e, n, st, path),
                                              AccordionContent(e.t, n), path),
                                  PanelSibling(e.t, n), path))

(***************************************************************************)
(* Post-processing of the block sequence                                   *)
(***************************************************************************)
\* d = dict(b); d[key] = val
With(b, key, val) ==
    [x \in DOMAIN b \cup {key} |-> IF x = key THEN val ELSE b[x]]

IsHeading(b) == b.type = "heading"

\* re.search(r'[.!?].+', text)
HasInternalPunctuation(text) ==
    \E i \in 1..(Len(text) - 1) : Ch(text, i) \in SentencePunct

\* re.search(r'[a-zA-Z]', text)
HasLetter(text) == HasCharIn(text, UpperChars \cup LowerChars)

\* blocks[i + 1] if i + 1 < len(blocks) else None, for the 1-based position i
NextBlock(bs, i) == IF i + 1 <= Len(bs) THEN bs[i + 1] ELSE NoBlock

\* a short paragraph before an H2 or H3, whatever precedes it
IsShortParagraph(block, next, i, bs) ==
    /\ block.type = "paragraph"
    /\ Len(block.text) < 40
    /\ IsHeading(next) /\ next.level >= 2 /\ next.level <= 3

\* _is_eyebrow_paragraph, for the block at the 1-based position i of bs
IsEyebrowParagraph(block, next, i, bs) ==
    LET text == Strip(BGet(block, "text", ""))
        lo == IF i - 10 < 1 THEN 1 ELSE i - 10
    IN  /\ block.type = "paragraph"
        /\ Len(text) < 40
        /\ ~HasCharIn(text, SentencePunct)
        /\ HasLetter(text)
        /\ ~\E j \in lo..(i - 1) :
               bs[j].type \in {"list", "table", "faq", "accordion"} /\ i - j <= 2
        /\ IsHeading(next) /\ next.level >= 2 /\ next.level <= 3

\* the H5/H6 test of _annotate_eyebrows, lines 1190-1199
IsH5H6Eyebrow(block, next) ==
    LET text == Strip(BGet(block, "text", ""))
    IN  /\ IsHeading(block) /\ block.level >= 5
        /\ Len(text) < 40
        /\ ~HasInternalPunctuation(text)
        /\ HasLetter(text)
        /\ next.type # "paragraph"

\* the heading of lines 1202-1205, turned into a paragraph
AsParagraph(block) ==
    [type |-> "paragraph", text |-> Strip(BGet(block, "text", "")), src |-> block.src]

Eyebrow == [role |-> "eyebrow"]

\* every short paragraph dropped, whatever the mode
DropShortParagraphs(bs, cfg) ==
    SelectSeq(bs, LAMBDA b : ~(b.type = "paragraph" /\ Len(b.text) < 40))

\* _annotate_eyebrows
AnnotateEyebrows(bs, cfg) ==
    LET One(i) ==
            LET h56 == IsH5H6Eyebrow(bs[i], NextBlock(bs, i))
                block == IF h56 THEN AsParagraph(bs[i]) ELSE bs[i]
                is_eyebrow == h56 \/ IsEyebrowParagraph(block, NextBlock(bs, i), i, bs)
            IN  IF ~is_eyebrow THEN <<block>>
                ELSE IF cfg.eyebrow_mode = "drop" THEN <<>>
                ELSE IF cfg.eyebrow_mode = "annotate" THEN <<With(block, "meta", Eyebrow)>>
                ELSE <<block>>
    IN  IF cfg.eyebrow_mode = "keep" THEN bs
        ELSE Concat([i \in 1..Len(bs) |-> One(i)])

\* _normalize_h5_h6_eyebrows
NormalizeH5H6Eyebrows(bs, cfg) ==
    LET One(i) ==
            LET block == bs[i]
                next == NextBlock(bs, i)
                text == Strip(BGet(block, "text", ""))
                is_eyebrow == /\ IsHeading(block) /\ block.level >= 5
                              /\ Len(text) < 40
                              /\ ~HasInternalPunctuation(text)
                              /\ HasLetter(text)
                              /\ IsHeading(next) /\ next.level >= 2 /\ next.level <= 3
            IN  IF is_eyebrow /\ cfg.eyebrow_mode = "drop" THEN <<>>
                ELSE IF is_eyebrow /\ cfg.eyebrow_mode = "annotate"
                     THEN <<With(AsParagraph(block), "meta", Eyebrow)>>
                ELSE <<block>>
    IN  IF cfg.eyebrow_mode = "keep" THEN bs
        ELSE Concat([i \in 1..Len(bs) |-> One(i)])

\* an H2 heading whose text names a blog feed
IsBlogHeading(b) ==
    /\ IsHeading(b) /\ b.level = 2
    /\ ContainsAny(Lower(BGet(b, "text", "")), {"blog", "posts"})

\* _remove_blog_feed_sections: a blog H2 and what follows it, up to the next
\* H2 that is not one, is dropped
RECURSIVE BlogFeedScan(_, _, _)
BlogFeedScan(bs, i, skipping) ==
    IF i > Len(bs) THEN <<>>
    ELSE IF IsBlogHeading(bs[i]) THEN BlogFeedScan(bs, i + 1, TRUE)
    ELSE IF skipping /\ ~(IsHeading(bs[i]) /\ bs[i].level = 2)
         THEN BlogFeedScan(bs, i + 1, TRUE)
    ELSE <<bs[i]>> \o BlogFeedScan(bs, i + 1, FALSE)

\* the blocks before the first blog H2, and nothing after it
KeepUpToBlogHeading(bs, d) ==
    LET first == {i \in 1..Len(bs) : IsBlogHeading(bs[i])}
    IN  IF first = {} THEN bs
        ELSE SubSeq(bs, 1, (CHOOSE i \in first : \A j \in first : i <= j) - 1)

RemoveBlogFeedSections(bs, d) ==
    IF IsBlogPostPage(d) THEN bs ELSE BlogFeedScan(bs, 1, FALSE)

\* the unique H4 headings of a section, lines 2220-2232: their positions
RECURSIVE H4Indices(_, _, _, _)
H4Indices(sec, k, seen, acc) ==
    IF k > Len(sec) THEN acc
    ELSE LET sb == sec[k]
             text == Strip(BGet(sb, "text", ""))
         IN  IF /\ IsHeading(sb) /\ sb.level = 4
                /\ text # "" /\ Lower(text) \notin seen
             THEN H4Indices(sec, k + 1, seen \cup {Lower(text)}, Append(acc, k))
             ELSE H4Indices(sec, k + 1, seen, acc)

\* the least number of unique titles both grid fallbacks turn into a list
MIN_GRID_TITLES == 6

\* one H2 section of _section_scoped_grid_fallback, lines 2234-2261: the
\* section's blocks with the list put where the first H4 was
GridSection(sec) ==
    LET h4 == H4Indices(sec, 1, {}, <<>>)
        Desc(k) == \* the first paragraph among the three blocks after an H4
            LET ps == {j \in (k + 1)..(k + 3) : j <= Len(sec) /\ sec[j].type = "paragraph"}
            IN  IF ps = {} THEN {} ELSE {CHOOSE j \in ps : \A x \in ps : j <= x}
        skip == Range(h4) \cup UNION {Desc(h4[k]) : k \in 1..Len(h4)}
        grid == [type |-> "list", ordered |-> FALSE,
                 items |-> [k \in 1..Len(h4) |-> Strip(sec[h4[k]].text)],
                 src |-> UNION {sec[h4[k]].src : k \in 1..Len(h4)}]
        One(k) == (IF k = h4[1] THEN <<grid>> ELSE <<>>)
                     \o (IF k \in skip THEN <<>> ELSE <<sec[k]>>)
    IN  IF Len(h4) >= MIN_GRID_TITLES
        THEN Concat([k \in 1..Len(sec) |-> One(k)])
        ELSE sec

\* _section_scoped_grid_fallback
RECURSIVE SectionScopedGridFallback(_)
SectionScopedGridFallback(bs) ==
    LET IsH2(b) == IsHeading(b) /\ b.level = 2
        ends == {j \in 2..Len(bs) : IsH2(bs[j])}
        j == IF ends = {} THEN Len(bs) + 1 ELSE CHOOSE x \in ends : \A y \in ends : x <= y
        sec == SubSeq(bs, 2, j - 1)
    IN  IF bs = <<>> THEN <<>>
        ELSE IF IsH2(bs[1]) /\ Len(H4Indices(sec, 1, {}, <<>>)) >= MIN_GRID_TITLES
             THEN <<bs[1]>> \o GridSection(sec)
                      \o SectionScopedGridFallback(SubSeq(bs, j, Len(bs)))
        ELSE <<bs[1]>> \o SectionScopedGridFallback(Tail(bs))

\* str(bool)
BoolStr(b) == IF b THEN "True" ELSE "False"

\* _extract_blocks_text
ExtractBlocksText(bs) ==
    LET Parts(b) == IF b.type \in {"paragraph", "heading"} THEN <<BGet(b, "text", "")>>
                    ELSE IF b.type = "list" THEN BGet(b, "items", <<>>)
                    ELSE IF b.type = "table" THEN Concat(BGet(b, "rows", <<>>))
                    ELSE <<>>
    IN  Lower(Join(Concat([k \in 1..Len(bs) |-> Parts(bs[k])]), "|"))

\* hashlib.md5(text.encode()).hexdigest()[:8]: the digest is not computed; two
\* texts get the same digest exactly when they are the same text
Md5Prefix(text) == "md5(" \o text \o ")"

\* '|'.join(f(x) for x in xs)
JoinMap(xs, f(_)) == Join([k \in 1..Len(xs) |-> f(xs[k])], "|")

Norm(s) == Strip(Lower(s))

\* _normalize_block_text
NormalizeBlockText(b) ==
    IF b.type = "heading"
    THEN "heading:" \o ToString(b.level) \o ":" \o Norm(BGet(b, "text", ""))
    ELSE IF b.type = "paragraph" THEN "paragraph:" \o Norm(BGet(b, "text", ""))
    ELSE IF b.type = "list"
         THEN "list:" \o BoolStr(b.ordered) \o ":" \o JoinMap(BGet(b, "items", <<>>), Norm)
    ELSE IF b.type = "cta"
         THEN "cta:" \o Norm(BGet(b, "text", "")) \o ":" \o Norm(BGet(b, "href", ""))
    ELSE IF b.type = "table"
         THEN "table:" \o JoinMap(BGet(b, "rows", <<>>), LAMBDA row : JoinMap(row, Norm))
    ELSE IF b.type = "faq"
         THEN "faq:" \o Norm(BGet(b, "question", "")) \o ":"
                  \o Md5Prefix(ExtractBlocksText(BGet(b, "answer_blocks", <<>>)))
    ELSE IF b.type = "accordion"
         THEN "accordion:" \o Norm(BGet(b, "title", "")) \o ":"
                  \o Md5Prefix(ExtractBlocksText(BGet(b, "content_blocks", <<>>)))
    ELSE IF b.type = "tabset"
         THEN "tabset:" \o JoinMap(BGet(b, "tabs", <<>>), LAMBDA tab : Norm(tab.title))
    ELSE ""

\* the sliding window
WINDOW_SIZE == 30

\* a scan that never forgets a key
RECURSIVE DedupeScanUnbounded(_, _)
DedupeScanUnbounded(bs, window) ==
    IF bs = <<>> THEN <<>>
    ELSE LET key == NormalizeBlockText(bs[1])
         IN  IF key = "" THEN <<bs[1]>> \o DedupeScanUnbounded(Tail(bs), window)
             ELSE IF key \in Range(window) THEN DedupeScanUnbounded(Tail(bs), window)
             ELSE <<bs[1]>> \o DedupeScanUnbounded(Tail(bs), Append(window, key))

\* the loop of _deduplicate_blocks, lines 2297-2317: window is seen_in_window
RECURSIVE DedupeScan(_, _)
DedupeScan(bs, window) ==
    IF bs = <<>> THEN <<>>
    ELSE LET key == NormalizeBlockText(bs[1])
             pushed == Append(window, key)
             next == IF Len(pushed) > WINDOW_SIZE THEN Tail(pushed) ELSE pushed
         IN  IF key = "" THEN <<bs[1]>> \o DedupeScan(Tail(bs), window)
             ELSE IF key \in Range(window) THEN DedupeScan(Tail(bs), window)
             ELSE <<bs[1]>> \o DedupeScan(Tail(bs), next)

\* _deduplicate_blocks: the content of every tab is deduplicated first
RECURSIVE DeduplicateBlocks(_)
DeduplicateBlocks(bs) ==
    LET Pre(b) ==
            IF b.type = "tabset"
            THEN [b EXCEPT !.tabs =
                     [k \in 1..Len(b.tabs) |->
                         [b.tabs[k] EXCEPT !.content_blocks = DeduplicateBlocks(@)]]]
            ELSE b
    IN  DedupeScan([k \in 1..Len(bs) |-> Pre(bs[k])], <<>>)

\* the number of level-1 headings, lines 152-156
H1Count(bs) == Cardinality({k \in 1..Len(bs) : IsHeading(bs[k]) /\ bs[k].level = 1})

\* a filter that drops nothing
KeepEveryH1(bs) == bs

\* the filter of lines 168-177: the first H1 stays, the later ones go
KeepFirstH1(bs) ==
    LET IsH1(b) == IsHeading(b) /\ b.level = 1
    IN  Concat([k \in 1..Len(bs) |->
                   IF IsH1(bs[k]) /\ \E j \in 1..(k - 1) : IsH1(bs[j])
                   THEN <<>> ELSE <<bs[k]>>])

(***************************************************************************)
(* Counters                                                                *)
(***************************************************************************)
\* _detect_and_convert_counters_in_html replaces a container by a table when
\* at least three of its children yield a (value, label) pair.  Every one of
\* its five patterns takes the value from the visible text of an element
\* that starts with a digit, a comma or a dot (re.match(r'^[\d,\.]+...')), and
\* only a div, section or article with 3 to 20 element children is looked at.
\* Where no text of the tree starts so, or no such container exists, the tree
\* is left as it is: the documents of this model are of that kind.
HasCounterInput(t) ==
    /\ \E i \in t.alive :
          LET s == Strip(t.nodes[i].text)
          IN  s # "" /\ Ch(s, 1) \in DigitChars \cup {",", "."}
    /\ \E c \in t.alive :
          /\ c # t.root
          /\ t.nodes[c].tag \in {"div", "section", "article"}
          /\ Len(Kids(t, c)) >= 3 /\ Len(Kids(t, c)) <= 20

DetectAndConvertCounters(t) == t

(***************************************************************************)
(* extract(), step by step                                                 *)
(***************************************************************************)
NoSource == [url |-> "", title |-> "", canonical |-> "", meta_description |-> ""]
NoTree == [nodes |-> <<>>, root |-> 0, alive |-> {}]
NoValidation == [status |-> "", h1_count |-> 0, messages |-> <<>>]

\* the addresses the elements of a copy can get: two of the assignments, in
\* document order and against it
Heaps(t) ==
    {[n \in DOMAIN t.nodes |-> n], [n \in DOMAIN t.nodes |-> Len(t.nodes) + 1 - n]}

\* the working copy with its elements at the addresses h
Placed(t, h) ==
    [nodes |-> t.nodes, root |-> t.root, alive |-> t.alive, vis |-> t.vis, addr |-> h]

\* the extractor during the walk of the working copy t
EnvOf(t, d, cfg, ix, h) ==
    [t |-> Placed(WithVisibility(t, cfg), h), d |-> d, cfg |-> cfg, idx |-> ix]

Env == EnvOf(tree, doc, config, idx, heap)

\* self._extract_blocks_recursive(self.main_content, blocks), line 132
WalkMain ==
    ExtractBlocksRecursive(Env, tree.root, DefaultContext,
                           [blocks |-> <<>>, consumed |-> consumed, err |-> ""], {})

\* extract, line 59
ExtractSource ==
    /\ pc = "extract"
    /\ source' = ExtractSourceMetadata(doc)
    /\ pc' = "find_main"
    /\ UNCHANGED <<workerVars, doc, config, tree, idx, consumed, blocks, validation, raised, h1found, heap, trail>>

\* a validation record that passes with no H1
PassWithoutH1 == [status |-> "pass", h1_count |-> 0, messages |-> <<>>]

\* the validation record returned when there is no main content, line 111
NoMainValidation ==
    [status |-> "warn", h1_count |-> 0,
     messages |-> <<"No H1 found in extracted blocks.">>]

\* _extract_blocks, lines 109-111: no main content
FindMainNone ==
    /\ pc = "find_main"
    /\ FindMainContent(doc, config) = 0
    /\ blocks' = <<>>
    /\ validation' = NoMainValidation
    /\ pc' = "done"
    /\ UNCHANGED <<workerVars, doc, config, source, tree, idx, consumed, raised, h1found, heap, trail>>

\* _extract_blocks, lines 109-116: the main content is found and copied
FindMain ==
    /\ pc = "find_main"
    /\ \E m \in {FindMainContent(doc, config)} :
          /\ m # 0
          /\ tree' = CloneMain(doc, m)
    /\ heap' \in Heaps(tree')
    /\ pc' = "build_id_index"
    /\ UNCHANGED <<workerVars, doc, config, source, idx, consumed, blocks, validation, raised, h1found, trail>>

\* line 122
BuildIndex ==
    /\ pc = "build_id_index"
    /\ idx' = BuildIdIndex(tree) @@ idx
    /\ pc' = "prune"
    /\ UNCHANGED <<workerVars, doc, config, source, tree, consumed, blocks, validation, raised, h1found, heap, trail>>

\* line 125
Prune ==
    /\ pc = "prune"
    /\ tree' = PruneUnwantedNodes(tree, tree.root, config)
    /\ pc' = "counters"
    /\ UNCHANGED <<workerVars, doc, config, source, idx, consumed, blocks, validation, raised, h1found, heap, trail>>

\* line 128
ConvertCounters ==
    /\ pc = "counters"
    /\ ~HasCounterInput(tree)
    /\ tree' = DetectAndConvertCounters(tree)
    /\ pc' = "walk"
    /\ UNCHANGED <<workerVars, doc, config, source, idx, consumed, blocks, validation, raised, h1found, heap, trail>>

\* lines 131-132: the walk returns
Walk ==
    /\ pc = "walk"
    /\ \E r \in {WalkMain} :
          /\ r.err = ""
          /\ blocks' = r.blocks
          /\ trail' = Append(trail, r.blocks)
          /\ consumed' = r.consumed
    /\ pc' = "annotate"
    /\ UNCHANGED <<workerVars, doc, config, source, tree, idx, validation, raised, h1found, heap>>

\* lines 131-132: the walk raises, and nothing in extract() catches it
WalkRaises ==
    /\ pc = "walk"
    /\ \E r \in {WalkMain} :
          /\ r.err # ""
          /\ raised' = r.err
          /\ consumed' = r.consumed
    /\ pc' = "raised"
    /\ UNCHANGED <<workerVars, doc, config, source, tree, idx, blocks, validation, h1found, heap, trail>>

\* line 137
Annotate ==
    /\ pc = "annotate"
    /\ blocks' = AnnotateEyebrows(blocks, config)
    /\ trail' = Append(trail, blocks')
    /\ pc' = "normalize"
    /\ UNCHANGED <<workerVars, doc, config, source, tree, idx, consumed, validation, raised, h1found, heap>>

\* line 140
Normalize ==
    /\ pc = "normalize"
    /\ blocks' = NormalizeH5H6Eyebrows(blocks, config)
    /\ trail' = Append(trail, blocks')
    /\ pc' = "blog_feeds"
    /\ UNCHANGED <<workerVars, doc, config, source, tree, idx, consumed, validation, raised, h1found, heap>>

\* line 143
RemoveBlogFeeds ==
    /\ pc = "blog_feeds"
    /\ blocks' = RemoveBlogFeedSections(blocks, doc)
    /\ trail' = Append(trail, blocks')
    /\ pc' = "grid_fallback"
    /\ UNCHANGED <<workerVars, doc, config, source, tree, idx, consumed, validation, raised, h1found, heap>>

\* line 146
GridFallback ==
    /\ pc = "grid_fallback"
    /\ blocks' = SectionScopedGridFallback(blocks)
    /\ trail' = Append(trail, blocks')
    /\ pc' = "dedupe"
    /\ UNCHANGED <<workerVars, doc, config, source, tree, idx, consumed, validation, raised, h1found, heap>>

\* line 149
Dedupe ==
    /\ pc = "dedupe"
    /\ blocks' = DeduplicateBlocks(blocks)
    /\ trail' = Append(trail, blocks')
    /\ pc' = "validate"
    /\ UNCHANGED <<workerVars, doc, config, source, tree, idx, consumed, validation, raised, h1found, heap>>

\* the validation record of lines 151-188 for the deduplicated blocks bs
ValidationOf(bs) ==
    IF H1Count(bs) = 0
    THEN [status |-> "warn", h1_count |-> 0,
          messages |-> <<"No H1 found in extracted blocks.">>]
    ELSE IF H1Count(bs) > 1
         THEN [status |-> "warn", h1_count |-> H1Count(KeepFirstH1(bs)),
               messages |-> <<"Multiple H1 headings found ("
                                \o ToString(H1Count(bs))
                                \o "). Kept the first.">>]
    ELSE [status |-> "pass", h1_count |-> H1Count(bs), messages |-> <<>>]

\* lines 151-190
Validate ==
    /\ pc = "validate"
    /\ h1found' = H1Count(blocks)
    /\ blocks' = IF H1Count(blocks) > 1 THEN KeepFirstH1(blocks) ELSE blocks
    /\ trail' = Append(trail, blocks')
    /\ validation' = ValidationOf(blocks)
    /\ pc' = "done"
    /\ UNCHANGED <<workerVars, doc, config, source, tree, idx, consumed, raised, heap>>

(***************************************************************************)
(* extract() as a function of the HTML, the configuration and the addresses *)
(* of the elements of the working copy: what a run returns, or the          *)
(* exception that leaves it                                                 *)
(***************************************************************************)
\* lines 137-149: the post-processing of the blocks of the walk
PostProcess(bs, d, cfg) ==
    DeduplicateBlocks(
        SectionScopedGridFallback(
            RemoveBlogFeedSections(
                NormalizeH5H6Eyebrows(AnnotateEyebrows(bs, cfg), cfg), d)))

\* the document extract() returns for the deduplicated blocks bs
Document(d, bs) ==
    [raised |-> "", source |-> ExtractSourceMetadata(d),
     blocks |-> IF H1Count(bs) > 1 THEN KeepFirstH1(bs) ELSE bs,
     validation |-> ValidationOf(bs)]

\* lines 137-190, after a walk that ended in r
Finished(d, cfg, r) ==
    IF r.err # "" THEN [raised |-> r.err]
    ELSE Document(d, PostProcess(r.blocks, d, cfg))

\* lines 122-190 for the copy t0 of the main content
ExtractFromCopy(d, cfg, h, t0) ==
    Finished(d, cfg,
             ExtractBlocksRecursive(
                 EnvOf(PruneUnwantedNodes(t0, t0.root, cfg), d, cfg, BuildIdIndex(t0), h),
                 t0.root, DefaultContext,
                 [blocks |-> <<>>, consumed |-> {}, err |-> ""], {}))

\* lines 109-190 for the main content m
ExtractFromMain(d, cfg, h, m) ==
    IF m = 0
    THEN [raised |-> "", source |-> ExtractSourceMetadata(d), blocks |-> <<>>,
          validation |-> NoMainValidation]
    ELSE ExtractFromCopy(d, cfg, h, CloneMain(d, m))

\* extract()
Extract(d, cfg, h) == ExtractFromMain(d, cfg, h, FindMainContent(d, cfg))

(***************************************************************************)
(* Input documents                                                         *)
(*                                                                         *)
(* Nodes are listed in document order, each with the position of its       *)
(* parent; a page starts with html (1), body (2).                          *)
(***************************************************************************)
N(tag, parent, text, attrs) ==
    [tag |-> tag, parent |-> parent, text |-> text, attrs |-> attrs]

NoHead == [title |-> "", canonical |-> "", og_url |-> "", description |-> "",
           og_description |-> ""]

\* html > body > main > content: the content's parents count from main = 3
Page(content) ==
    [nodes |-> <<N("html", 0, "", NoAttrs), N("body", 1, "", NoAttrs),
                 N("main", 2, "", NoAttrs)>> \o content,
     head |-> NoHead]

\* html > body > wrapper > main > content: main = 4
WrappedPage(wrapper, content) ==
    [nodes |-> <<N("html", 0, "", NoAttrs), N("body", 1, "", NoAttrs), wrapper,
                 N("main", 3, "", NoAttrs)>> \o content,
     head |-> NoHead]

WithHead(d, head) == [d EXCEPT !.head = head]

Para == "First paragraph here."

\* the number of cards of a card grid document
GridCards == 6

\* the number of distinct headings between the two equal paragraphs of the
\* long document
LongRun == 30

\* a container (at position at, under p) of n cards, each a div with a title
CardGridNodes(p, at, n, ttag, tattrs, ptext) ==
    <<N("div", p, "", "class" :> "grid")>> \o
    [i \in 1..(2 * n) |->
        IF i % 2 = 1 THEN N("div", at, ptext, "class" :> "card")
        ELSE N(ttag, at + i - 1, "Card " \o ToString(i \div 2), tattrs)]

\* p, n headings of level 1 with n different texts, the same p again
LongDoc(n) ==
    Page(<<N("p", 3, "Same words again.", NoAttrs)>>
         \o [k \in 1..n |-> N("h1", 3, "Title " \o ToString(k), NoAttrs)]
         \o <<N("p", 3, "Same words again.", NoAttrs)>>)

EmptyDoc == [nodes |-> <<>>, head |-> NoHead]

\* a div with role="heading" and aria-level="3" between an H1 and a paragraph
RoleHeadingDoc ==
    Page(<<N("h1", 3, "Welcome home", NoAttrs),
           N("div", 3, "Section title here",
             ("role" :> "heading") @@ ("aria-level" :> "3")),
           N("p", 3, Para, NoAttrs)>>)

HeadingDocs ==
    {RoleHeadingDoc,
     Page(<<N("h1", 3, "Welcome home", NoAttrs), N("p", 3, Para, NoAttrs)>>),
     Page(<<N("p", 3, Para, NoAttrs), N("h2", 3, "Only a section", NoAttrs)>>),
     Page(<<N("h1", 3, "Welcome home", NoAttrs), N("p", 3, Para, NoAttrs),
            N("h1", 3, "Welcome home", NoAttrs)>>),
     Page(<<N("h1", 3, "Welcome home", NoAttrs), N("p", 3, Para, NoAttrs),
            N("h1", 3, "Second title", NoAttrs)>>),
     Page(<<N("h5", 3, "Our promise", NoAttrs), N("h2", 3, "What we do", NoAttrs),
            N("p", 3, "Short label", NoAttrs), N("h3", 3, "How we do it", NoAttrs),
            N("h2", 3, "Latest blog posts", NoAttrs), N("p", 3, Para, NoAttrs),
            N("h2", 3, "Contact", NoAttrs)>>),
     Page(<<N("h1", 3, "Welcome home", NoAttrs), N("h6", 3, "Our promise", NoAttrs),
            N("h2", 3, "What we do", NoAttrs), N("p", 3, "A short label line", NoAttrs),
            N("h3", 3, "How we do it", NoAttrs), N("p", 3, Para, NoAttrs),
            N("ul", 3, "", NoAttrs), N("li", 10, "First item", NoAttrs),
            N("li", 10, "Second item", NoAttrs),
            N("p", 3, "Another label line", NoAttrs),
            N("h2", 3, "More for you", NoAttrs)>>),
     LongDoc(2), LongDoc(LongRun)}

\* references that resolve to the referencing element or to an ancestor
ReferenceDocs ==
    {Page(<<N("div", 3, "Open section", ("aria-controls" :> "x") @@ ("id" :> "x"))>>),
     Page(<<N("div", 3, "", "id" :> "wrap"),
            N("div", 4, "", "role" :> "tablist"),
            N("div", 5, "Tab one", ("role" :> "tab") @@ ("aria-controls" :> "wrap"))>>),
     Page(<<N("div", 3, "", "id" :> "wrap"),
            N("div", 4, "", NoAttrs),
            N("a", 5, "One", "href" :> "#wrap"),
            N("a", 5, "Two", "href" :> "#other"),
            N("div", 4, "", "id" :> "other"),
            N("p", 7, Para, NoAttrs)>>),
     Page(<<N("div", 3, "", "role" :> "tablist"),
            N("div", 4, "Tab one", ("role" :> "tab") @@ ("data-target" :> "#gone")),
            N("div", 4, "Tab two", ("role" :> "tab") @@ ("data-target" :> "#here")),
            N("div", 3, "", ("id" :> "gone") @@ ("class" :> "hidden")),
            N("p", 7, Para, NoAttrs),
            N("div", 3, "", "id" :> "here"),
            N("p", 9, "Second panel text.", NoAttrs)>>)}

\* two pairs of fragment anchors, each anchor in a paragraph of its own: the
\* pair under the outer div and the pair under the inner div are two groups
\* of the same size
TieDoc ==
    Page(<<N("div", 3, "", NoAttrs),
           N("p", 4, "", NoAttrs), N("a", 5, "One", "href" :> "#a"),
           N("p", 4, "", NoAttrs), N("a", 7, "Two", "href" :> "#b"),
           N("div", 4, "", NoAttrs),
           N("p", 9, "", NoAttrs), N("a", 10, "Three", "href" :> "#c"),
           N("p", 9, "", NoAttrs), N("a", 12, "Four", "href" :> "#d"),
           N("div", 3, "", "id" :> "a"), N("p", 14, "Panel one text here.", NoAttrs),
           N("div", 3, "", "id" :> "b"), N("p", 16, "Panel two text here.", NoAttrs),
           N("div", 3, "", "id" :> "c"), N("p", 18, "Panel three text here.", NoAttrs),
           N("div", 3, "", "id" :> "d"), N("p", 20, "Panel four text here.", NoAttrs)>>)

\* <main><h1>T</h1><div><a href="#a">A</a><a href="#b">B</a></div>
\* <section id="a"><p>alpha</p></section><section id="b"><p>beta</p></section></main>
AnchorTabsDoc ==
    Page(<<N("h1", 3, "T", NoAttrs),
           N("div", 3, "", NoAttrs),
           N("a", 5, "A", "href" :> "#a"),
           N("a", 5, "B", "href" :> "#b"),
           N("section", 3, "", "id" :> "a"), N("p", 8, "alpha", NoAttrs),
           N("section", 3, "", "id" :> "b"), N("p", 10, "beta", NoAttrs)>>)

\* an H2 section of H4 titles: the first H4 has its paragraph right after it,
\* the second an H3 and then a paragraph, and the first title comes again at
\* the end of the section
TitlesDoc ==
    Page(<<N("h1", 3, "Welcome home", NoAttrs),
           N("h2", 3, "Our services", NoAttrs),
           N("h4", 3, "Service 1", NoAttrs),
           N("p", 3, "What service one is.", NoAttrs),
           N("h4", 3, "Service 2", NoAttrs),
           N("h3", 3, "An aside", NoAttrs),
           N("p", 3, "What the aside says.", NoAttrs)>>
         \o [k \in 1..(GridCards - 2) |->
                N("h4", 3, "Service " \o ToString(k + 2), NoAttrs)]
         \o <<N("h4", 3, "Service 1", NoAttrs),
              N("h2", 3, "Contact", NoAttrs),
              N("p", 3, Para, NoAttrs)>>)

\* two tabs; the panel of the first holds a <details> with a grid of cards
PanelGridDoc ==
    Page(<<N("div", 3, "", "role" :> "tablist"),
           N("div", 4, "Tab one", ("role" :> "tab") @@ ("aria-controls" :> "p1")),
           N("div", 4, "Tab two", ("role" :> "tab") @@ ("aria-controls" :> "p2")),
           N("div", 3, "", ("id" :> "p1") @@ ("role" :> "tabpanel")),
           N("details", 7, "", NoAttrs),
           N("summary", 8, "More services", NoAttrs)>>
         \o CardGridNodes(8, 10, GridCards, "h3", NoAttrs, "")
         \o <<N("div", 3, "", ("id" :> "p2") @@ ("role" :> "tabpanel")),
              N("p", 11 + 2 * GridCards, "Panel two text here.", NoAttrs)>>)

\* two tabs; the panel of the first says the same paragraph twice
RepeatedPanelDoc ==
    Page(<<N("div", 3, "", "role" :> "tablist"),
           N("div", 4, "Tab one", ("role" :> "tab") @@ ("aria-controls" :> "p1")),
           N("div", 4, "Tab two", ("role" :> "tab") @@ ("aria-controls" :> "p2")),
           N("div", 3, "", ("id" :> "p1") @@ ("role" :> "tabpanel")),
           N("p", 7, "Panel one text here.", NoAttrs),
           N("p", 7, "Panel one text here.", NoAttrs),
           N("div", 3, "", ("id" :> "p2") @@ ("role" :> "tabpanel")),
           N("p", 10, "Panel two text here.", NoAttrs)>>)

TabDocs ==
    {TieDoc, AnchorTabsDoc, TitlesDoc, PanelGridDoc, RepeatedPanelDoc,
     Page(<<N("div", 3, "", "role" :> "tablist"),
            N("div", 4, "Overview", "role" :> "tab")>>),
     Page(<<N("div", 3, "", "role" :> "tablist"),
            N("div", 4, "Tab one", ("role" :> "tab") @@ ("aria-controls" :> "p1")),
            N("div", 4, "Tab two", ("role" :> "tab") @@ ("aria-controls" :> "p2")),
            N("div", 3, "", ("id" :> "p1") @@ ("role" :> "tabpanel")),
            N("p", 7, "Panel one text here.", NoAttrs),
            N("div", 3, "", ("id" :> "p2") @@ ("role" :> "tabpanel")),
            N("p", 9, "Panel two text here.", NoAttrs)>>),
     Page(<<N("div", 3, "", "role" :> "tablist"),
            N("div", 4, "Tab one", "role" :> "tab"),
            N("div", 4, "", "role" :> "tabpanel"),
            N("p", 6, "Panel one text here.", NoAttrs),
            N("div", 4, "Tab two", "role" :> "tab"),
            N("div", 4, "", "role" :> "tabpanel"),
            N("p", 9, "Panel two text here.", NoAttrs)>>),
     Page(<<N("div", 3, "", NoAttrs),
            N("a", 4, "One", "href" :> "#a"),
            N("a", 4, "Two", "href" :> "#b"),
            N("div", 3, "", "id" :> "a"),
            N("p", 7, "Panel one text here.", NoAttrs),
            N("div", 3, "", "id" :> "b"),
            N("p", 9, "Panel two text here.", NoAttrs)>>),
     Page(<<N("div", 3, "", "id" :> "a"),
            N("p", 4, "Panel one text here.", NoAttrs),
            N("div", 3, "", "id" :> "b"),
            N("p", 6, "Panel two text here.", NoAttrs),
            N("div", 3, "", NoAttrs),
            N("a", 8, "One", "href" :> "#a"),
            N("a", 8, "Two", "href" :> "#b")>>)}

ChromeDocs ==
    {WrappedPage(N("header", 2, "", NoAttrs),
                 <<N("p", 4, "Inside header text.", NoAttrs)>>),
     WrappedPage(N("div", 2, "", "role" :> "complementary"),
                 <<N("h1", 4, "Side title", NoAttrs)>>),
     Page(<<N("nav", 3, "", NoAttrs), N("p", 4, "Menu text in nav.", NoAttrs),
            N("p", 3, Para, NoAttrs),
            N("div", 3, "", "role" :> "contentinfo"),
            N("p", 7, "Footer text here.", NoAttrs)>>),
     [nodes |-> <<N("html", 0, "", NoAttrs), N("body", 1, "", NoAttrs),
                  N("div", 2, "", NoAttrs), N("p", 3, Para, NoAttrs),
                  N("header", 2, "", NoAttrs),
                  N("div", 5, "", NoAttrs), N("p", 6, "Header text here.", NoAttrs)>>,
      head |-> NoHead]}

HiddenDocs ==
    {Page(<<N("p", 3, "Hidden text here.", "class" :> "hidden"),
            N("div", 3, "", NoAttrs),
            N("span", 5, "Screen reader only text", "class" :> "sr-only"),
            N("p", 3, Para, NoAttrs),
            N("p", 3, "Mobile hidden text.", "class" :> "elementor-hidden-mobile")>>),
     WrappedPage(N("div", 2, "", "class" :> "hidden"),
                 <<N("p", 4, "Secret text here.", NoAttrs)>>),
     Page(<<N("p", 3, "Visible sentence here.", NoAttrs),
            N("span", 4, "ab", "aria-hidden" :> "true"),
            N("label", 5, "long label text", NoAttrs)>>),
     [nodes |-> <<N("html", 0, "", NoAttrs), N("body", 1, "", NoAttrs),
                  N("main", 2, "", "style" :> "display:none"),
                  N("p", 3, Para, NoAttrs)>>,
      head |-> NoHead]}

Button == "class" :> "btn"

\* a form with two button-styled links, one to a contact page
FormCtaDoc ==
    Page(<<N("h1", 3, "Welcome home", NoAttrs),
           N("form", 3, "", NoAttrs),
           N("a", 5, "Contact us", Button @@ ("href" :> "/contact")),
           N("a", 5, "Get pricing", Button @@ ("href" :> "/pricing")),
           N("p", 3, Para, NoAttrs)>>)

CtaDocs ==
    {FormCtaDoc,
     WithHead(Page(<<N("a", 3, "Get pricing", Button @@ ("href" :> "pricing"))>>),
              [NoHead EXCEPT !.canonical = "https://api.example.com/"]),
     WithHead(Page(<<N("a", 3, "Contact us", Button @@ ("href" :> "/contact")),
                     N("a", 3, "Nowhere", Button @@ ("href" :> "#")),
                     N("a", 3, "Run script", Button @@ ("href" :> "javascript:go()"))>>),
              [NoHead EXCEPT !.canonical = "https://example.com/docs/start",
                             !.title = " Start "]),
     WithHead(Page(<<N("a", 3, "Call the endpoint", Button @@ ("href" :> "/api/v1/go")),
                     N("a", 3, "Sign up", Button @@ ("href" :> "#signup")),
                     N("button", 3, "Call us now", NoAttrs)>>),
              [NoHead EXCEPT !.og_url = "https://example.com/blog/a-post",
                             !.og_description = "About"]),
     WithHead(Page(<<N("a", 3, "Contact us", Button @@ ("href" :> "/contact")),
                     N("a", 3, "See the plans", Button @@ ("href" :> "#plans"))>>),
              [NoHead EXCEPT !.canonical = "https://example.com/docs/start"])}

ListDocs ==
    {Page(<<N("ul", 3, "", NoAttrs), N("li", 4, "Only item", NoAttrs),
            N("ol", 3, "", NoAttrs), N("li", 6, "First item", NoAttrs),
            N("li", 6, "Second item", NoAttrs)>>),
     Page(CardGridNodes(3, 4, GridCards, "h3", NoAttrs, "")),
     Page(CardGridNodes(3, 4, GridCards, "div",
                        ("role" :> "heading") @@ ("aria-level" :> "2"), "")),
     Page(CardGridNodes(3, 4, GridCards, "div",
                        ("role" :> "heading") @@ ("aria-level" :> "x"), "")),
     Page(<<N("ul", 3, "", NoAttrs), N("li", 4, "First item", NoAttrs),
            N("li", 4, "Second item", NoAttrs)>>
          \o CardGridNodes(3, 7, GridCards, "h3", NoAttrs, "")
          \o <<N("h2", 3, "Our services", NoAttrs)>>
          \o [k \in 1..GridCards |-> N("h4", 3, "Service " \o ToString(k), NoAttrs)]),
     Page(<<N("details", 3, "", NoAttrs), N("summary", 4, "What is this?", NoAttrs),
            N("p", 4, "An answer paragraph here.", NoAttrs),
            N("ul", 4, "", NoAttrs), N("li", 7, "First item", NoAttrs),
            N("li", 7, "Second item", NoAttrs),
            N("ul", 4, "", NoAttrs), N("li", 10, "Only item", NoAttrs)>>)}

\* pages without <main>: the H1 beside the densest div, under a wrapper div
\* and as a child of <body>
WrappedH1Doc ==
    [nodes |-> <<N("html", 0, "", NoAttrs), N("body", 1, "", NoAttrs),
                 N("div", 2, "", NoAttrs), N("h1", 3, "Welcome home", NoAttrs),
                 N("div", 3, "", NoAttrs), N("p", 5, Para, NoAttrs)>>,
     head |-> NoHead]

BodyH1Doc ==
    [nodes |-> <<N("html", 0, "", NoAttrs), N("body", 1, "", NoAttrs),
                 N("h1", 2, "Welcome home", NoAttrs),
                 N("div", 2, "", NoAttrs), N("p", 4, Para, NoAttrs)>>,
     head |-> NoHead]

Docs ==
    {EmptyDoc, WrappedH1Doc, BodyH1Doc} \cup HeadingDocs \cup ReferenceDocs
        \cup TabDocs \cup ChromeDocs \cup HiddenDocs \cup CtaDocs \cup ListDocs

\* the default configuration of __init__
DefaultConfig ==
    [eyebrow_mode |-> "annotate", drop_blog_feeds_on_non_blog_pages |-> TRUE,
     strict_seo_mode |-> FALSE, drop_breakpoint_hidden |-> FALSE]

Configs ==
    {DefaultConfig,
     [DefaultConfig EXCEPT !.eyebrow_mode = "drop"],
     [DefaultConfig EXCEPT !.eyebrow_mode = "keep"],
     [DefaultConfig EXCEPT !.drop_breakpoint_hidden = TRUE],
     [DefaultConfig EXCEPT !.drop_blog_feeds_on_non_blog_pages = FALSE]}

(***************************************************************************)
(* The job worker (src/worker/process_jobs.py)                             *)
(***************************************************************************)
\* the worker processes that poll the same table
Workers == {"w1", "w2"}

\* the rows of extraction_jobs, in the order of created_at
JobIds == <<"j1", "j2">>

JobSet == {JobIds[k] : k \in 1..Len(JobIds)}

\* no job: None
NoJob == "none"

\* a column that is NULL
NoTime == -1

\* line 122
STALE_PROCESSING_MINUTES == 15

\* the clock stops here
MaxClock == 16

\* the completed_at column after an update: the model keeps that it is set,
\* not the time
Stamped == 0

\* the clock is read at the multiples of 16 minutes and one minute before
\* each: the instants at which a row claimed at an earlier instant is
\* exactly 15 minutes old, and older
NextInstant(t) ==
    IF t % (STALE_PROCESSING_MINUTES + 1) = 0
    THEN t + STALE_PROCESSING_MINUTES ELSE t + 1

\* the error text of lines 143
TimedOut == "Job timed out (worker restarted or interrupted). Please try again."

\* str(exc) of the exception of a job: the body of a refused upload, which
\* may be empty (line 268), or the message of any other exception
ExcTexts == {"", "Bucket not found"}

\* a row as the API front end inserts it
QueuedRow ==
    [status |-> "queued", started_at |-> NoTime, error |-> "",
     completed_at |-> NoTime, output_path |-> ""]

\* PATCH: the columns of the payload replace those of the row
Patch(row, payload) ==
    [c \in DOMAIN row |-> IF c \in DOMAIN payload THEN payload[c] ELSE row[c]]

\* the table after the request of _update_job, lines 112-114: the filter of
\* the URL is id=eq.{job_id} and nothing else
UpdateJob(js, j, payload) == [js EXCEPT ![j] = Patch(@, payload)]

\* the list with the comparison turned round: started_at=gt.{cutoff}
FreshRows(js, t) ==
    {j \in JobSet : /\ js[j].status = "processing"
                    /\ js[j].started_at > t - STALE_PROCESSING_MINUTES}

\* the rows of the stale list, lines 126-131:
\* status=eq.processing&started_at=lt.{cutoff}
StaleRows(js, t) ==
    {j \in JobSet : /\ js[j].status = "processing"
                    /\ js[j].started_at < t - STALE_PROCESSING_MINUTES}

\* the row of _fetch_next_job's query, lines 65-68:
\* status=eq.queued&order=created_at.asc&limit=1
NextQueued(js) ==
    LET queued == {k \in 1..Len(JobIds) : js[JobIds[k]].status = "queued"}
    IN  IF queued = {} THEN NoJob
        ELSE JobIds[CHOOSE k \in queued : \A m \in queued : k <= m]

\* a filter on the id alone
ClaimMatchesId(js, j) == j \in JobSet /\ js[j].status # "completed"

\* the filter of _claim_job's URL, line 85: id=eq.{job_id}&status=eq.queued
ClaimMatches(js, j) == j \in JobSet /\ js[j].status = "queued"

\* the orders in which a set of rows can come back
Orders(set) ==
    {o \in [1..Cardinality(set) -> set] :
        \A a, b \in 1..Cardinality(set) : a # b => o[a] # o[b]}

\* the positions of main() at which the worker holds a claimed job
Holding == {"work", "upload", "complete", "fail"}

\* the table and the workers before the first poll
WorkersStarted ==
    /\ jobs = [j \in JobSet |-> QueuedRow]
    /\ now = 0
    /\ wpc = [w \in Workers |-> "sweep"]
    /\ wjob = [w \in Workers |-> NoJob]
    /\ wstale = [w \in Workers |-> <<>>]
    /\ claims = [j \in JobSet |-> {}]

\* time passes
Tick ==
    /\ NextInstant(now) <= MaxClock
    /\ now' = NextInstant(now)
    /\ UNCHANGED <<extractorVars, jobs, wpc, wjob, wstale, claims>>

\* line 131: requests.get of the stale list raises (no try around it), or
\* response.json() of line 132 does; the exception leaves main()
SweepRaises(w) ==
    /\ wpc[w] = "sweep"
    /\ wpc' = [wpc EXCEPT ![w] = "crashed"]
    /\ UNCHANGED <<extractorVars, jobs, now, wjob, wstale, claims>>

\* lines 132-133: the response is not ok, or the list is empty
SweepNothing(w) ==
    /\ wpc[w] = "sweep"
    /\ wpc' = [wpc EXCEPT ![w] = "fetch"]
    /\ UNCHANGED <<extractorVars, jobs, now, wjob, wstale, claims>>

\* lines 131-134: the stale rows are read
SweepRows(w) ==
    /\ wpc[w] = "sweep"
    /\ StaleRows(jobs, now) # {}
    /\ \E o \in Orders(StaleRows(jobs, now)) : wstale' = [wstale EXCEPT ![w] = o]
    /\ wpc' = [wpc EXCEPT ![w] = "mark"]
    /\ UNCHANGED <<extractorVars, jobs, now, wjob, claims>>

\* lines 134-147, one row of the loop: _update_job with status failed;
\* applied tells whether the request changed the table (a failure is logged)
MarkStaleWith(w, applied) ==
    /\ wpc[w] = "mark"
    /\ jobs' = IF applied
               THEN UpdateJob(jobs, Head(wstale[w]),
                              [status |-> "failed", error |-> TimedOut,
                               completed_at |-> Stamped])
               ELSE jobs
    /\ wstale' = [wstale EXCEPT ![w] = Tail(@)]
    /\ wpc' = [wpc EXCEPT ![w] = IF Tail(wstale[w]) = <<>> THEN "fetch" ELSE "mark"]
    /\ UNCHANGED <<extractorVars, now, wjob, claims>>

MarkStale(w) == \E applied \in BOOLEAN : MarkStaleWith(w, applied)

\* lines 166-169: _fetch_next_job; a failed request or an empty list gives
\* None, and the loop sleeps and starts again
Fetch(w) ==
    /\ wpc[w] = "fetch"
    /\ \E ok \in BOOLEAN :
          LET job == IF ok THEN NextQueued(jobs) ELSE NoJob
          IN  /\ wjob' = [wjob EXCEPT ![w] = job]
              /\ wpc' = [wpc EXCEPT ![w] = IF job = NoJob THEN "sweep" ELSE "claim"]
    /\ UNCHANGED <<extractorVars, jobs, now, wstale, claims>>

\* lines 171-174: _claim_job; sent: the request reached the table, answered:
\* its response came back ok.  Without a returned row the loop starts again
Claim(w) ==
    /\ wpc[w] = "claim"
    /\ \E sent \in BOOLEAN, answered \in BOOLEAN :
          LET matched == sent /\ ClaimMatches(jobs, wjob[w])
          IN  /\ jobs' = IF matched
                         THEN UpdateJob(jobs, wjob[w],
                                        [status |-> "processing", started_at |-> now])
                         ELSE jobs
              /\ claims' = IF matched
                           THEN [claims EXCEPT ![wjob[w]] = @ \cup {w}]
                           ELSE claims
              /\ wpc' = [wpc EXCEPT ![w] = IF matched /\ answered THEN "work"
                                           ELSE "sweep"]
    /\ UNCHANGED <<extractorVars, now, wjob, wstale>>

\* lines 195-243: the files are downloaded, extracted and zipped; a failed
\* download or extraction is written into the zip, any other exception goes
\* to the handler of line 296
Work(w) ==
    /\ wpc[w] = "work"
    /\ \E ok \in BOOLEAN : wpc' = [wpc EXCEPT ![w] = IF ok THEN "upload" ELSE "fail"]
    /\ UNCHANGED <<extractorVars, jobs, now, wjob, wstale, claims>>

\* lines 258-268: the upload; a failed request or response raises
Upload(w) ==
    /\ wpc[w] = "upload"
    /\ \E ok \in BOOLEAN : wpc' = [wpc EXCEPT ![w] = IF ok THEN "complete" ELSE "fail"]
    /\ UNCHANGED <<extractorVars, jobs, now, wjob, wstale, claims>>

\* lines 272-281: _update_job with status completed
Complete(w) ==
    /\ wpc[w] = "complete"
    /\ \E applied \in BOOLEAN :
          jobs' = IF applied
                  THEN UpdateJob(jobs, wjob[w],
                                 [status |-> "completed", output_path |-> "output/zip",
                                  completed_at |-> Stamped])
                  ELSE jobs
    /\ wpc' = [wpc EXCEPT ![w] = "sweep"]
    /\ UNCHANGED <<extractorVars, now, wjob, wstale, claims>>

\* lines 296-309: _update_job with status failed and str(exc)
Fail(w) ==
    /\ wpc[w] = "fail"
    /\ \E applied \in BOOLEAN, text \in ExcTexts :
          jobs' = IF applied
                  THEN UpdateJob(jobs, wjob[w],
                                 [status |-> "failed", error |-> text,
                                  completed_at |-> Stamped])
                  ELSE jobs
    /\ wpc' = [wpc EXCEPT ![w] = "sweep"]
    /\ UNCHANGED <<extractorVars, now, wjob, wstale, claims>>

\* the process is stopped in the middle of a job and started again (the
\* case of the comment of line 121)
Restart(w) ==
    /\ wpc[w] \in Holding
    /\ wpc' = [wpc EXCEPT ![w] = "sweep"]
    /\ wjob' = [wjob EXCEPT ![w] = NoJob]
    /\ UNCHANGED <<extractorVars, jobs, now, wstale, claims>>

\* a step of the polling loop of worker w
Poll(w) ==
    \/ SweepRaises(w) \/ SweepNothing(w) \/ SweepRows(w) \/ MarkStale(w)
    \/ Fetch(w) \/ Claim(w) \/ Work(w) \/ Upload(w) \/ Complete(w) \/ Fail(w)

(***************************************************************************)
(* The specification                                                       *)
(***************************************************************************)
Init ==
    /\ doc \in Docs
    /\ config \in Configs
    /\ pc = "extract"
    /\ source = NoSource
    /\ tree = NoTree
    /\ idx = <<>>
    /\ consumed = {}
    /\ blocks = <<>>
    /\ validation = NoValidation
    /\ raised = ""
    /\ h1found = 0
    /\ heap = <<>>
    /\ trail = <<>>
    /\ WorkersStarted

Next ==
    \/ ExtractSource
    \/ FindMainNone
    \/ FindMain
    \/ BuildIndex
    \/ Prune
    \/ ConvertCounters
    \/ Walk
    \/ WalkRaises
    \/ Annotate
    \/ Normalize
    \/ RemoveBlogFeeds
    \/ GridFallback
    \/ Dedupe
    \/ Validate

Spec == Init /\ [][Next]_vars

\* extract() is called again on the extractor that has returned: __init__
\* alone sets main_content_id_index and consumed_panel_nodes, so the call
\* starts with what the call before left in them
ExtractAgain ==
    /\ pc = "done"
    /\ pc' = "extract"
    /\ source' = NoSource
    /\ tree' = NoTree
    /\ blocks' = <<>>
    /\ validation' = NoValidation
    /\ h1found' = 0
    /\ heap' = <<>>
    /\ trail' = <<>>
    /\ UNCHANGED <<workerVars, doc, config, idx, consumed, raised>>

NextAgain == Next \/ ExtractAgain

\* one extractor, extract() called any number of times
SpecAgain == Init /\ [][NextAgain]_vars

\* the workers next to an extractor that is not run
WorkerInit ==
    /\ doc = EmptyDoc
    /\ config = DefaultConfig
    /\ pc = "extract"
    /\ source = NoSource
    /\ tree = NoTree
    /\ idx = <<>>
    /\ consumed = {}
    /\ blocks = <<>>
    /\ validation = NoValidation
    /\ raised = ""
    /\ h1found = 0
    /\ heap = <<>>
    /\ trail = <<>>
    /\ WorkersStarted

WorkerNext ==
    \/ Tick
    \/ \E w \in Workers : SweepRaises(w)
    \/ \E w \in Workers : SweepNothing(w)
    \/ \E w \in Workers : SweepRows(w)
    \/ \E w \in Workers : MarkStale(w)
    \/ \E w \in Workers : Fetch(w)
    \/ \E w \in Workers : Claim(w)
    \/ \E w \in Workers : Work(w)
    \/ \E w \in Workers : Upload(w)
    \/ \E w \in Workers : Complete(w)
    \/ \E w \in Workers : Fail(w)
    \/ \E w \in Workers : Restart(w)

\* the workers polling one table
WorkerSpec == WorkerInit /\ [][WorkerNext]_vars

\* a worker that has not left main() goes on with its loop; a request that
\* is made again and again (the loop polls every 5 seconds, lines 164-169)
\* is answered in the end
WorkerFairness ==
    \A w \in Workers :
        /\ WF_vars(Poll(w))
        /\ SF_vars(SweepRows(w))
        /\ SF_vars(MarkStaleWith(w, TRUE))

WorkerFairSpec == WorkerSpec /\ WorkerFairness

(***************************************************************************)
(* Properties                                                              *)
(***************************************************************************)
\* the blocks of a sequence and, after each, the blocks nested in it
RECURSIVE Flatten(_)
Flatten(bs) ==
    LET Inner(b) ==
            IF b.type = "tabset"
            THEN Concat([k \in 1..Len(b.tabs) |-> Flatten(b.tabs[k].content_blocks)])
            ELSE IF b.type = "faq" THEN Flatten(b.answer_blocks)
            ELSE IF b.type = "accordion" THEN Flatten(b.content_blocks)
            ELSE <<>>
    IN  Concat([k \in 1..Len(bs) |-> <<bs[k]>> \o Inner(bs[k])])

\* the nodes whose text a block carries, in itself or in a nested block
TextSrc(b) ==
    LET all == Flatten(<<b>>)
        Own(x) == IF x.type = "tabset"
                  THEN UNION {x.tabs[k].src : k \in 1..Len(x.tabs)}
                  ELSE x.src
    IN  UNION {Own(all[k]) : k \in 1..Len(all)}

Returned == pc = "done"

\* C1: extract() never raises: no run of it ends in an exception.
C1_ExtractNeverRaises == pc # "raised"

\* C2: in what extract() returns, at most one top-level block is a heading of
\* level 1, and validation.h1_count is the number of them.
C2_AtMostOneH1 ==
    Returned => /\ H1Count(blocks) <= 1
                /\ validation.h1_count = H1Count(blocks)

\* C2 witness: extract() returned after it found more than one H1.
C2_ExtraH1Dropped == Returned /\ h1found > 1 /\ H1Count(blocks) = 1

\* the visible <h1> elements of the pruned main content
EligibleH1s ==
    {i \in tree.alive : /\ tree.nodes[i].tag = "h1"
                        /\ Strip(GetVisibleTextSimple(tree, i, config)) # ""}

\* C3: when the main content has more than one eligible H1, whatever their
\* texts, the status is "warn", the messages hold "Multiple H1 headings found
\* (N). Kept the first." with N the number of H1s, and the H1 kept is the first.
C3_MultipleH1Warned ==
    (Returned /\ Cardinality(EligibleH1s) > 1) =>
        /\ validation.status = "warn"
        /\ \E k \in 1..Len(validation.messages) :
              validation.messages[k] =
                  "Multiple H1 headings found (" \o ToString(Cardinality(EligibleH1s))
                      \o "). Kept the first."
        /\ \E k \in 1..Len(blocks) :
              /\ IsHeading(blocks[k]) /\ blocks[k].level = 1
              /\ blocks[k].src = {CHOOSE i \in EligibleH1s : \A j \in EligibleH1s : i <= j}

\* C4: in the returned blocks, no two top-level blocks less than 30 positions
\* apart have the same dedupe key.
C4_NoDuplicateKeyInWindow ==
    Returned =>
        \A i \in 1..Len(blocks), j \in 1..Len(blocks) :
            (i < j /\ j - i < WINDOW_SIZE /\ NormalizeBlockText(blocks[i]) # "")
                => NormalizeBlockText(blocks[i]) # NormalizeBlockText(blocks[j])

\* C5: every tabset block, top-level or nested, has at least 2 tabs.
C5_TabsetsHaveTwoTabs ==
    \A k \in 1..Len(Flatten(blocks)) :
        Flatten(blocks)[k].type = "tabset" => Len(Flatten(blocks)[k].tabs) >= 2

\* C6: every list block, top-level or nested, has at least 2 items.
C6_ListsHaveTwoItems ==
    \A k \in 1..Len(Flatten(blocks)) :
        Flatten(blocks)[k].type = "list" => Len(Flatten(blocks)[k].items) >= 2

\* C6 witness: extract() returned lists of all three origins: a <ul> of two
\* items, the titles of a card grid, and the H4 titles of an H2 section.
C6_ListsOfEveryOrigin ==
    /\ Returned
    /\ \E a \in 1..Len(blocks), b \in 1..Len(blocks), c \in 1..Len(blocks) :
          /\ a < b /\ b < c
          /\ blocks[a].type = "list" /\ Len(blocks[a].items) = 2
          /\ blocks[b].type = "list" /\ blocks[b].items[1] = "Card 1"
          /\ blocks[c].type = "list" /\ blocks[c].items[1] = "Service 1"

\* C7: the text of a panel that was extracted as the content of a tab is in
\* no other top-level block.
C7_PanelsNotRepeated ==
    Returned =>
        \A k \in 1..Len(blocks) :
            blocks[k].type = "tabset" =>
                \A x \in 1..Len(blocks[k].tabs), j \in 1..Len(blocks) :
                    (j # k /\ blocks[k].tabs[x].panel # 0) =>
                        TextSrc(blocks[j]) \cap Subtree(tree, blocks[k].tabs[x].panel) = {}

\* C8: no returned block carries text of an element of the input that is, or
\* lies inside, page chrome (header, nav, footer, aside or a chrome role).
C8_NoChromeText ==
    Returned =>
        \A k \in 1..Len(blocks) :
            \A i \in TextSrc(blocks[k]) : ~IsExcluded(Soup(doc), i)

\* C9: no returned block carries text of an element of the input for which the
\* visibility predicate is true.
C9_NoHiddenText ==
    Returned =>
        \A k \in 1..Len(blocks) :
            \A i \in TextSrc(blocks[k]) : ~IsVisuallyHidden(Soup(doc), i, config)

\* C10: no cta block has an href that is "#", starts with "javascript:" or
\* matches an API endpoint pattern.
C10_NoForbiddenHref ==
    \A k \in 1..Len(Flatten(blocks)) :
        LET b == Flatten(blocks)[k]
        IN  (b.type = "cta" /\ "href" \in DOMAIN b) =>
                /\ b.href # "#"
                /\ ~StartsWith(b.href, "javascript:")
                /\ ~MatchesApiPattern(Lower(b.href))

\* C11: a cta block carries meta.role = "router" exactly when its href
\* begins with "#" and is not "#" alone, and the href of such a block is the
\* href attribute of its element, not resolved against the canonical URL.
C11_RouterIffFragment ==
    \A k \in 1..Len(Flatten(blocks)) :
        LET b == Flatten(blocks)[k]
        IN  b.type = "cta" =>
                /\ ("meta" \in DOMAIN b /\ b.meta = [role |-> "router"])
                       <=> ("href" \in DOMAIN b /\ StartsWith(b.href, "#") /\ b.href # "#")
                /\ "meta" \in DOMAIN b =>
                       \E n \in b.src : Get(tree.nodes[n], "href", "") = b.href

\* a returned document with a canonical URL, a router cta and a cta whose
\* href was resolved against the canonical URL
C11_RouterBesideResolved ==
    /\ Returned
    /\ doc.head.canonical # ""
    /\ \E k \in 1..Len(blocks) :
          /\ blocks[k].type = "cta" /\ "meta" \in DOMAIN blocks[k]
          /\ blocks[k].href = "#plans"
    /\ \E k \in 1..Len(blocks) :
          /\ blocks[k].type = "cta" /\ "meta" \notin DOMAIN blocks[k]
          /\ blocks[k].href = "https://example.com/contact"

\* C12: a run returns what extract() returns for its HTML and configuration
\* wherever the elements of the working copy are in memory: two runs on the
\* same HTML with the same configuration return the same source, blocks and
\* validation.
C12_RunsAgree ==
    Returned =>
        \A h \in Heaps(tree) :
            Extract(doc, config, h)
                = [raised |-> "", source |-> source, blocks |-> blocks,
                   validation |-> validation]

\* a returned run whose elements were placed against document order and
\* whose tabset was chosen among two largest groups of anchors
C12_TieDecided ==
    /\ Returned
    /\ doc = TieDoc
    /\ heap[3] > heap[4]
    /\ \E k \in 1..Len(blocks) :
          /\ blocks[k].type = "tabset"
          /\ [x \in 1..Len(blocks[k].tabs) |-> blocks[k].tabs[x].title] = <<"One", "Two">>

\* C13: a run on a document with no <main>, no role="main" element and no
\* <body> returns, with no blocks, status "warn", h1_count 0 and the message
\* "No H1 found in extracted blocks."
C13_NoMainContentWarns ==
    (/\ pc \in {"done", "raised", "build_id_index"}
     /\ \A i \in DOMAIN doc.nodes :
            /\ doc.nodes[i].tag \notin {"main", "body"}
            /\ Get(doc.nodes[i], "role", "") # "main")
        => /\ Returned
           /\ blocks = <<>>
           /\ validation.status = "warn"
           /\ validation.h1_count = 0
           /\ \E k \in 1..Len(validation.messages) :
                  validation.messages[k] = "No H1 found in extracted blocks."

\* the run on the empty document has returned
C13_EmptyInputReturned ==
    Returned /\ doc = EmptyDoc /\ source = NoSource /\ validation # NoValidation

\* C14: the option drop_blog_feeds_on_non_blog_pages governs the removal of
\* blog feeds: when it is false, or the page is a blog post page, the H2-run
\* post-processor (the fourth step that assigns blocks) removes nothing.
C14_OptionGovernsRemoval ==
    (/\ Len(trail) >= 4
     /\ ~config.drop_blog_feeds_on_non_blog_pages \/ IsBlogPostPage(doc))
        => trail[4] = trail[3]

\* xs is ys with some of its elements left out
RECURSIVE IsSubsequence(_, _)
IsSubsequence(xs, ys) ==
    IF xs = <<>> THEN TRUE
    ELSE IF ys = <<>> THEN FALSE
    ELSE IF xs[1] = ys[1] THEN IsSubsequence(Tail(xs), Tail(ys))
    ELSE IsSubsequence(xs, Tail(ys))

\* C15: after the two eyebrow passes (the second and third steps that assign
\* blocks) the sequence equals the one of the walk under keep; under annotate
\* it has the same length and differs only in blocks that became eyebrow
\* paragraphs; under drop it is the sequence of the walk with blocks left
\* out and none changed.
C15_EyebrowPassesFrame ==
    Len(trail) >= 3 =>
        /\ config.eyebrow_mode = "keep" => trail[3] = trail[1]
        /\ config.eyebrow_mode = "annotate" =>
               /\ Len(trail[3]) = Len(trail[1])
               /\ \A k \in 1..Len(trail[1]) :
                      \/ trail[3][k] = trail[1][k]
                      \/ /\ trail[3][k].type = "paragraph"
                         /\ BGet(trail[3][k], "meta", <<>>) = Eyebrow
                         /\ trail[3][k].text = Strip(trail[1][k].text)
        /\ config.eyebrow_mode = "drop" => IsSubsequence(trail[3], trail[1])

\* the eyebrow passes have run in annotate mode and made eyebrow paragraphs
\* of a paragraph and of a heading
C15_EyebrowsAnnotated ==
    /\ Len(trail) >= 3
    /\ config.eyebrow_mode = "annotate"
    /\ \E k \in 1..Len(trail[1]) :
          trail[1][k].type = "paragraph" /\ trail[3][k] # trail[1][k]
    /\ \E k \in 1..Len(trail[1]) :
          trail[1][k].type = "heading" /\ trail[3][k] # trail[1][k]


\* a tab with the title and one paragraph of the text as its content
IsTabWithParagraph(tab, title, text) ==
    /\ tab.title = title
    /\ Len(tab.content_blocks) = 1
    /\ tab.content_blocks[1].type = "paragraph"
    /\ tab.content_blocks[1].text = text

\* C16: for the page of an H1 "T", a div of the anchors A -> #a and B -> #b
\* and the sections a (<p>alpha</p>) and b (<p>beta</p>), the returned blocks
\* are the H1 "T" followed by one tabset whose tabs are A with the paragraph
\* alpha and B with the paragraph beta.
C16_AnchorTabsWithPanels ==
    (Returned /\ doc = AnchorTabsDoc) =>
        /\ Len(blocks) = 2
        /\ IsHeading(blocks[1]) /\ blocks[1].level = 1 /\ blocks[1].text = "T"
        /\ blocks[2].type = "tabset"
        /\ Len(blocks[2].tabs) = 2
        /\ IsTabWithParagraph(blocks[2].tabs[1], "A", "alpha")
        /\ IsTabWithParagraph(blocks[2].tabs[2], "B", "beta")


\* block k of bs is a blog H2 or follows one with no other H2 in between
InBlogFeed(bs, k) ==
    \E j \in 1..k :
        /\ IsBlogHeading(bs[j])
        /\ \A m \in (j + 1)..k :
               ~(IsHeading(bs[m]) /\ bs[m].level = 2 /\ ~IsBlogHeading(bs[m]))

\* C17: on a page that is not a blog post the blog-feed step (the fourth step
\* that assigns blocks) drops every H2 whose lowercased text contains "blog"
\* or "posts" with the blocks after it up to, not including, the next H2
\* that contains neither word; every other block is kept, in order.
C17_BlogFeedRunsDropped ==
    (Len(trail) >= 4 /\ ~IsBlogPostPage(doc)) =>
        trail[4] = Concat([k \in 1..Len(trail[3]) |->
                              IF InBlogFeed(trail[3], k) THEN <<>>
                              ELSE <<trail[3][k]>>])

\* a blog H2 and the block after it were dropped and the H2 after them kept
C17_FeedDroppedNextKept ==
    /\ Len(trail) >= 4 /\ ~IsBlogPostPage(doc)
    /\ \E k \in 2..(Len(trail[3]) - 2) :
          /\ ~InBlogFeed(trail[3], k - 1)
          /\ IsBlogHeading(trail[3][k])
          /\ ~IsHeading(trail[3][k + 1])
          /\ ~InBlogFeed(trail[3], k + 2)
          /\ Len(trail[4]) = Len(trail[3]) - 2


\* the conditions of an eyebrow paragraph, for the block at position k of bs
EyebrowConditions(bs, k) ==
    /\ Len(bs[k].text) < 40
    /\ HasLetter(bs[k].text)
    /\ \A c \in {".", "!", "?"} : ~Contains(bs[k].text, c)
    /\ \A j \in {k - 2, k - 1} \cap (1..Len(bs)) :
           bs[j].type \notin {"list", "table", "faq", "accordion"}
    /\ k + 1 <= Len(bs)
    /\ bs[k + 1].type = "heading" /\ bs[k + 1].level \in {2, 3}

IsH2Block(b) == b.type = "heading" /\ b.level = 2

IsH4Block(b) == b.type = "heading" /\ b.level = 4

\* the positions of the H2 headings of bs, in order
H2Positions(bs) ==
    Concat([k \in 1..Len(bs) |-> IF IsH2Block(bs[k]) THEN <<k>> ELSE <<>>])

\* the blocks between the n-th H2 of bs and the next H2 (or the end)
SectionAfter(bs, n) ==
    LET h2 == H2Positions(bs)
    IN  SubSeq(bs, h2[n] + 1, IF n < Len(h2) THEN h2[n + 1] - 1 ELSE Len(bs))

\* the titles of the H4 headings of a section, each once, in order of first
\* appearance
RECURSIVE DistinctTitles(_, _)
DistinctTitles(sec, seen) ==
    IF sec = <<>> THEN <<>>
    ELSE IF IsH4Block(sec[1]) /\ sec[1].text # "" /\ Lower(sec[1].text) \notin seen
         THEN <<sec[1].text>>
                 \o DistinctTitles(Tail(sec), seen \cup {Lower(sec[1].text)})
    ELSE DistinctTitles(Tail(sec), seen)

\* C19: for every H2 section with at least 6 H4 headings of distinct titles,
\* after the grid fallback (the fifth step that assigns blocks) the section
\* has one unordered list of those titles where the first H4 was, no heading
\* of level 4 remains in it, and every other block that is gone from it is a
\* paragraph that came right after an H4.
C19_GridSectionReplaced ==
    Len(trail) >= 5 =>
        \A n \in 1..Len(H2Positions(trail[4])) :
            LET sec == SectionAfter(trail[4], n)
                res == SectionAfter(trail[5], n)
                titles == DistinctTitles(sec, {})
                first == CHOOSE k \in 1..Len(sec) :
                             IsH4Block(sec[k]) /\ \A j \in 1..(k - 1) : ~IsH4Block(sec[j])
            IN  Len(titles) >= MIN_GRID_TITLES =>
                    /\ Len(res) >= first
                    /\ res[first].type = "list" /\ ~res[first].ordered
                    /\ res[first].items = titles
                    /\ \A k \in 1..Len(res) : ~IsH4Block(res[k])
                    /\ \A k \in 1..Len(sec) :
                           sec[k] \notin Range(res) =>
                               \/ IsH4Block(sec[k])
                               \/ /\ sec[k].type = "paragraph"
                                  /\ k > 1 /\ IsH4Block(sec[k - 1])


\* the document has neither a <main> nor a role="main" element
HasNoMain(d) ==
    \A i \in DOMAIN d.nodes :
        d.nodes[i].tag # "main" /\ Get(d.nodes[i], "role", "") # "main"

\* C20: when the document has no <main> and no role="main" element and has
\* an eligible H1, the content root that _find_main_content returns (the
\* root of the working copy, right after it is made) contains that H1.
C20_RootContainsEligibleH1 ==
    (pc = "build_id_index" /\ HasNoMain(doc) /\ FirstEligibleH1(Soup(doc)) # 0) =>
        FirstEligibleH1(Soup(doc)) \in Subtree(Soup(doc), tree.root)


\* the ids the element n refers to: aria-controls, data-target, data-tab and
\* a fragment href, without the leading "#"
ReferencedIds(t, n) ==
    {LStripHash(t.nodes[n].attrs[a]) :
        a \in DOMAIN t.nodes[n].attrs
                \cap {"aria-controls", "data-target", "data-tab", "href"}}

\* C21: when the walk starts (after pruning and counter rewriting) every
\* element that an element of the main-content tree reaches through the id
\* index is itself an element of that tree.
C21_IndexWithinPrunedTree ==
    pc = "walk" =>
        \A n \in tree.alive : \A k \in ReferencedIds(tree, n) \cap DOMAIN idx :
            idx[k] \in tree.alive


\* the button-styled <a> elements of the document that are inside a <form>
FormButtonLinks(d) ==
    {n \in DOMAIN d.nodes :
        /\ d.nodes[n].tag = "a"
        /\ Get(d.nodes[n], "href", "") # ""
        /\ ContainsAny(ClassStr(d.nodes[n]), BUTTON_CLASS_PATTERNS)
        /\ \E p \in Range(Parents(Soup(d), n)) : d.nodes[p].tag = "form"}

\* C22: in what extract() returns, a button-styled <a> inside a <form> is
\* the source of a cta block exactly when its href contains /contact,
\* /quote, tel: or mailto:.
C22_FormCtaByHref ==
    Returned =>
        \A n \in FormButtonLinks(doc) :
            (\E k \in 1..Len(Flatten(blocks)) :
                 Flatten(blocks)[k].type = "cta" /\ n \in Flatten(blocks)[k].src)
              <=> ContainsAny(Lower(doc.nodes[n].attrs["href"]),
                              {"/contact", "/quote", "tel:", "mailto:"})


\* max(1, min(6, level))
Clamped(level) == IF level < 1 THEN 1 ELSE IF level > 6 THEN 6 ELSE level

\* the elements of the main content with role="heading", an integer
\* aria-level and a text, that are not h1..h6 tags
RoleHeadings(t) ==
    {n \in t.alive :
        /\ Get(t.nodes[n], "role", "") = "heading"
        /\ t.nodes[n].tag \notin Headings
        /\ IsIntLiteral(Get(t.nodes[n], "aria-level", ""))
        /\ Strip(t.nodes[n].text) # ""}

\* C23: after the walk every role="heading" element of the pruned main
\* content is the source of a heading block whose level is its aria-level
\* clamped to 1..6.
C23_RoleHeadingEmitted ==
    Len(trail) >= 1 =>
        \A n \in RoleHeadings(tree) :
            \E k \in 1..Len(Flatten(trail[1])) :
                LET b == Flatten(trail[1])[k]
                IN  /\ b.type = "heading"
                    /\ n \in b.src
                    /\ b.level = Clamped(IntValue(tree.nodes[n].attrs["aria-level"]))


\* the blocks card-grid detection returns for the element n when it is
\* called outside a tab panel and outside navigation
GridBlocksOf(n) == DetectCardGrid(Env.t, n, DefaultContext, idx, config).blocks

\* C24: after the walk no block in the content of a tab is a block that
\* card-grid detection makes of an element beneath that tab's panel.
C24_NoCardGridInTabPanel ==
    Len(trail) >= 1 =>
        \A k \in 1..Len(trail[1]) :
            trail[1][k].type = "tabset" =>
                \A x \in 1..Len(trail[1][k].tabs) :
                    LET tab == trail[1][k].tabs[x]
                    IN  tab.panel \in tree.alive =>
                            \A n \in Subtree(tree, tab.panel) :
                                Range(GridBlocksOf(n))
                                    \cap Range(Flatten(tab.content_blocks)) = {}


\* C25: a call of extract() starts with an empty id index and an empty set
\* of consumed panels, and what it returns is what extract() returns on a
\* new extractor for the same HTML and configuration.
C25_CallsShareNothing ==
    /\ pc = "find_main" => (consumed = {} /\ DOMAIN idx = {})
    /\ Returned =>
           Extract(doc, config, heap)
               = [raised |-> "", source |-> source, blocks |-> blocks,
                  validation |-> validation]

\* a block of the output stands for a block of the input: the same block, or
\* the same tabset with the content of every tab thinned out
RECURSIVE ThinnedFrom(_, _), SameBlockThinned(_, _)
ThinnedFrom(out, in) ==
    IF out = <<>> THEN TRUE
    ELSE IF in = <<>> THEN FALSE
    ELSE IF SameBlockThinned(out[1], in[1]) THEN ThinnedFrom(Tail(out), Tail(in))
    ELSE ThinnedFrom(out, Tail(in))

SameBlockThinned(o, i) ==
    IF i.type = "tabset" /\ o.type = "tabset" /\ Len(o.tabs) = Len(i.tabs)
    THEN /\ [o EXCEPT !.tabs = <<>>] = [i EXCEPT !.tabs = <<>>]
         /\ \A k \in 1..Len(i.tabs) :
                /\ [o.tabs[k] EXCEPT !.content_blocks = <<>>]
                       = [i.tabs[k] EXCEPT !.content_blocks = <<>>]
                /\ ThinnedFrom(o.tabs[k].content_blocks, i.tabs[k].content_blocks)
    ELSE o = i

\* the positions of in that the blocks of out come from, the earliest first
RECURSIVE KeptPositions(_, _, _)
KeptPositions(out, in, at) ==
    IF out = <<>> \/ at > Len(in) THEN <<>>
    ELSE IF SameBlockThinned(out[1], in[at])
         THEN <<at>> \o KeptPositions(Tail(out), in, at + 1)
         ELSE KeptPositions(out, in, at + 1)

\* every block of in that is not in out has its key on one of the
\* WINDOW_SIZE blocks kept last before it
DroppedOnlyForRecentKey(out, in) ==
    LET kept == KeptPositions(out, in, 1)
        Before(i) == {k \in 1..Len(kept) : kept[k] < i}
    IN  \A i \in 1..Len(in) :
            i \notin Range(kept) =>
                \E k \in Before(i) :
                    /\ Cardinality(Before(i)) - k < WINDOW_SIZE
                    /\ NormalizeBlockText(in[kept[k]]) = NormalizeBlockText(in[i])

\* the claim of the deduplication for one input, and for the content of
\* every tab of a tabset in it
DedupeContract(in) ==
    LET out == DeduplicateBlocks(in)
    IN  /\ ThinnedFrom(out, in)
        /\ DroppedOnlyForRecentKey(out, in)
        /\ DeduplicateBlocks(out) = out

C30_KeptBeyondWindow ==
    /\ Len(trail) >= 6
    /\ \E i, j \in 1..Len(trail[6]) :
          /\ j - i >= WINDOW_SIZE
          /\ NormalizeBlockText(trail[6][i]) = NormalizeBlockText(trail[6][j])

\* a tab lost a block of its content
C30_TabThinned ==
    /\ Len(trail) >= 6
    /\ \E k \in 1..Len(trail[5]) :
          /\ trail[5][k].type = "tabset"
          /\ \E t \in 1..Len(trail[5][k].tabs) :
                DeduplicateBlocks(trail[5][k].tabs[t].content_blocks)
                    # trail[5][k].tabs[t].content_blocks

\* job j has been in processing for more than 15 minutes
Stale(j) ==
    /\ jobs[j].status = "processing"
    /\ now - jobs[j].started_at > STALE_PROCESSING_MINUTES

\* every worker has left its polling loop
NoWorkerPolls == \A w \in Workers : wpc[w] = "crashed"

\* C26 as stated: a job that has been in processing for more than 15
\* minutes is in the end set to failed, with an error text and completed_at,
\* as long as a worker keeps polling.
C26_StaleJobSetFailed ==
    \A j \in JobSet :
        Stale(j) ~> \/ /\ jobs[j].status = "failed"
                       /\ jobs[j].error # ""
                       /\ jobs[j].completed_at # NoTime
                    \/ NoWorkerPolls

\* C26, amended: a job that has been in processing for more than 15 minutes
\* leaves processing in the end as long as a worker keeps polling: a sweep
\* sets it to failed unless the worker that claimed it sets it to completed
\* or failed first; and a failed job always has completed_at.
C26_StaleJobLeavesProcessing ==
    /\ \A j \in JobSet :
           Stale(j) ~> (jobs[j].status # "processing" \/ NoWorkerPolls)
    /\ [](\A j \in JobSet :
             jobs[j].status = "failed" => jobs[j].completed_at # NoTime)

\* a sweep has set a job to failed that no worker was holding
C26_SweptJob ==
    \E j \in JobSet :
        /\ jobs[j].status = "failed"
        /\ jobs[j].error = TimedOut
        /\ jobs[j].completed_at # NoTime
        /\ \A w \in Workers : wpc[w] \in Holding => wjob[w] # j

\* C27: at most one worker's claim changes the row of a job, and a worker
\* that is processing, uploading or about to write the result of a job is
\* that worker: a worker whose claim returned nothing holds no job.
C27_ClaimedByAtMostOne ==
    /\ \A j \in JobSet : Cardinality(claims[j]) <= 1
    /\ \A w \in Workers :
           wpc[w] \in Holding => (wjob[w] \in JobSet /\ w \in claims[wjob[w]])
    /\ \A j \in JobSet : claims[j] # {} => jobs[j].status # "queued"

\* two workers fetched the same job; one holds it, the claim of the other
\* returned nothing and it is back at the start of its loop
C27_SecondClaimRefused ==
    \E j \in JobSet, w, v \in Workers :
        /\ w # v
        /\ wpc[w] \in Holding /\ wjob[w] = j
        /\ wpc[v] = "sweep" /\ wjob[v] = j /\ v \notin claims[j]

\* C28: the status of a job only moves from queued to processing and from
\* processing to completed or failed; no step changes the status of a job
\* that is completed or failed.
C28_StatusOnlyForward ==
    [][\A j \in JobSet :
          jobs'[j].status # jobs[j].status =>
              <<jobs[j].status, jobs'[j].status>> \in
                  {<<"queued", "processing">>, <<"processing", "completed">>,
                   <<"processing", "failed">>}]_vars

\* C29: no worker leaves its polling loop.
C29_PollingLoopGoesOn == \A w \in Workers : wpc[w] # "crashed"

====
